---------------------------- MODULE Spec2Model ----------------------------
(***************************************************************************)
(* A model of recon10s (IWG1 -> HDOB converter): scripts/recon10s.py, the  *)
(* reader of recon10s_plot.py and the front end recon10s_gui.py.           *)
(*                                                                         *)
(* Time is counted in ticks since the epoch, Res ticks to the second, so   *)
(* that sub-second timestamps (parse_time accepts "%f") are represented.   *)
(* All sample times lie in January 1970, where the day of the month is     *)
(* the day index plus one.                                                 *)
(*                                                                         *)
(* The specifications share the variables:                                 *)
(*   Spec      convert_iwg1_to_hdob called on an arbitrary sample list;    *)
(*             a report line is represented by its time group              *)
(*   SpecMain  main(): read, validate, filter, convert, write              *)
(*   SpecParse parse_iwg1_row / parse_float on one candidate line          *)
(*   SpecRead  read_iwg1: the candidate lines parsed serially or by the    *)
(*             thread pool                                                 *)
(*   SpecBin   convert_iwg1_to_hdob on parsed samples that fall into one   *)
(*             bin: the reductions and the thirteen groups of the line     *)
(*   SpecEnc   the pressure encoders encode_PPPP and encode_XXXX           *)
(*   SpecPeak  the loop of compute_peak10s                                 *)
(*   SpecLoop  convert_iwg1_to_hdob scheduled fairly, on lists with        *)
(*             repeated timestamps and gaps                                *)
(*   SpecLayout SpecBin on a few samples chosen for the line's layout      *)
(*   SpecPeakGaps SpecPeak on lists with gaps in time and with speeds      *)
(*             that are negative, infinite or NaN                          *)
(*   SpecMission auto_mission_from_tail on a URL or a path                 *)
(*   SpecPos   lat_to_LLLLH / lon_to_NNNNNH and _tok_to_latlon reading     *)
(*             the tokens back                                             *)
(*   SpecWind  vector_mean_wind on equal wind vectors                      *)
(*   SpecGui   the front end: time entries, theme, run button, worker      *)
(*             thread, result queue and its poll                           *)
(*   SpecGuiLive SpecGui with the worker thread and the poll scheduled     *)
(*             fairly                                                      *)
(* A specification pins the variables of the parts it does not run.        *)
(*                                                                         *)
(* Numbers are exact rationals (or an infinity, or NaN); the values drawn  *)
(* are such that the double arithmetic of the program rounds as the exact  *)
(* arithmetic does.                                                        *)
(***************************************************************************)
EXTENDS Integers, Sequences, FiniteSets, TLC

\* ------------------------------------------------------------------ bounds
Res == 2
MaxRows == 3
MaxK == 2
MainMaxRows == 2
MaxBinRows == 2
MaxTextLines == 3
MaxWorkers == 3
MaxGapSamples == 3
MaxPeakSamples == 13
MaxPieces == 4
MaxWindSamples == 3
MaxRuns == 2

\* Sample timestamps, in ticks (with Res = 2: 17 s, 29.5 s, 30 s, 47 s,
\* 125 s, 250 s, 395 s past the epoch).
SampleTicks == {34, 59, 60, 94, 250, 500, 790}

\* argparse choices of --interval
Intervals == {10, 30, 60, 120}

\* Optional values: None is the empty tuple, a present value x is <<x>>.
None == <<>>
Some(x) == <<x>>

Min(a, b) == IF a <= b THEN a ELSE b

RECURSIVE SeqsUpTo(_, _)
SeqsUpTo(S, n) ==
    IF n = 0 THEN {<<>>}
    ELSE LET shorter == SeqsUpTo(S, n - 1)
         IN  shorter \cup {Append(s, x) : s \in {q \in shorter : Len(q) = n - 1}, x \in S}

\* An IWG1Row; only the timestamp decides binning and packaging.
IWG1Row(t) == [t |-> t]
SampleRows == {IWG1Row(t) : t \in SampleTicks}

VARIABLES
    c_pc,           \* convert_iwg1_to_hdob: "idle", "called", "loop", "returned"
    in_rows,        \* the rows argument as passed by the caller
    rows,           \* the local rows (sorted once the function has started)
    interval_s,     \* argument interval_s, in seconds
    lines_per_msg,  \* argument lines_per_msg
    start,          \* rows[0].t after sorting
    bin_start,      \* start of the bin the loop is at
    i,              \* number of samples consumed (Python's index i)
    out_lines,      \* the report lines produced so far
    bins,           \* history: for each line produced, its bin start and its samples
    iters,          \* history: number of outer loop iterations run
    text            \* the returned text (a sequence of lines and newlines)

convVars == <<c_pc, in_rows, rows, interval_s, lines_per_msg, start, bin_start,
              i, out_lines, bins, iters, text>>

VARIABLES
    m_pc,           \* main: "idle", "read", "validate", "filter", "call", "converting", "done", "raised"
    args,           \* the parsed command line: start, end, out, interval, lines_per_message
    parsed,         \* what read_iwg1 returned
    m_rows,         \* main's variable rows
    start_sec,      \* main's start_sec (None or <<seconds>>)
    end_sec,        \* main's end_sec
    rc,             \* main's return value (None until it returns)
    stderr,         \* the messages written to sys.stderr, in order
    stdout,         \* what was printed to sys.stdout, in order
    out_file        \* the content of the --out file (None: not written)

mainVars == <<m_pc, args, parsed, m_rows, start_sec, end_sec, rc, stderr, stdout, out_file>>

VARIABLES
    p_pc,           \* parse_iwg1_row: "idle", "line", "parsed"
    parts,          \* the comma-separated fields of one candidate line
    p_row           \* the result: None or <<IWG1Row>>

parseVars == <<p_pc, parts, p_row>>

VARIABLES
    r_pc,           \* read_iwg1: "idle", "text", "pool", "returned"
    r_text,         \* the lines of the text read from the file or the URL
    r_workers,      \* argument workers
    parts_list,     \* the candidate lines of the text, in text order
    futures,        \* pooled mode: per submitted task, None or <<its result>>
    running,        \* pooled mode: per worker thread, 0 or the task it runs
    next_task,      \* pooled mode: the next task of the work queue
    done_order,     \* history: the tasks in the order they completed
    r_rows          \* the returned rows

readVars == <<r_pc, r_text, r_workers, parts_list, futures, running, next_task, done_order, r_rows>>

VARIABLES
    b_pc,           \* "idle", "first", "second", "done"
    b_rows,         \* the samples passed to the first call, in the caller's order
    b_perm,         \* the same samples in the order of the second call
    b_out,          \* outcome of the first call: None, or <<raised or the line>>
    b_out2          \* outcome of the second call

binVars == <<b_pc, b_rows, b_perm, b_out, b_out2>>

VARIABLES
    e_pc,           \* "idle", "args", "pppp", "pppp_up", "encoded"
    e_args,         \* ps_hpa, z_m, t_c: each None or <<number>>
    e_out           \* outcomes of encode_PPPP(ps_hpa), encode_PPPP(ps_hpa + 1000.0), encode_XXXX(...)
                    \* and of the extrapolation encode_XXXX calls

encVars == <<e_pc, e_args, e_out>>

VARIABLES
    k_pc,           \* compute_peak10s: "idle", "called", "loop", "returned"
    k_times,        \* argument times, in ticks
    k_spds,         \* argument spd_ms_list: each None or <<number>>
    k_idx,          \* number of samples the loop has consumed
    dq,             \* the window: a sequence of <<t, s>>
    sum_s,          \* sum of the speeds in the window
    count,          \* number of samples in the window
    best_mean,      \* largest window mean seen
    k_ret           \* the return value: None or <<number>>

peakVars == <<k_pc, k_times, k_spds, k_idx, dq, sum_s, count, best_mean, k_ret>>

VARIABLES
    a_pc,           \* auto_mission_from_tail: "idle", "called", "returned"
    url_or_path,    \* the argument, as characters
    a_ret           \* the returned label: None or <<characters>>

missionVars == <<a_pc, url_or_path, a_ret>>

VARIABLES
    l_pc,           \* position round trip: "idle", "ready", "encoded", "decoded"
    l_lat,          \* latitude in degrees (a number)
    l_lon,          \* longitude in degrees
    l_tokens,       \* None or <<<<token of lat_to_LLLLH, token of lon_to_NNNNNH>>>>
    l_decoded       \* None or <<what _tok_to_latlon returns for the two tokens>>

posVars == <<l_pc, l_lat, l_lon, l_tokens, l_decoded>>

VARIABLES
    w_pc,           \* vector_mean_wind: "idle", "called", "returned"
    wd_deg,         \* argument wd_deg: the directions
    ws_ms,          \* argument ws_ms: the speeds
    w_ret           \* None or <<the outcome>>

windVars == <<w_pc, wd_deg, ws_ms, w_ret>>

VARIABLES
    g_pc,           \* the graphical front end: "idle" or "open"
    run_button,     \* state of the run button: "normal" or "disabled"
    controls,       \* state of the other widgets _set_controls_state configures
    times_valid,    \* validate_time_string holds for the start and the end entry
    out_exists,     \* the output file: "absent", "fresh" (written by the run
                    \* that ended last) or "stale" (there, but not written by it)
    workers,        \* the worker threads started: per thread "running" or "finished"
    worker_queue,   \* the results put and not yet taken
    polls,          \* number of pending root.after(200, _poll_worker_queue) calls
    reports         \* history: per result taken, what _on_worker_done reported

guiVars == <<g_pc, run_button, controls, times_valid, out_exists, workers, worker_queue, polls, reports>>

moreVars == <<missionVars, posVars, windVars, guiVars>>
otherVars == <<readVars, binVars, encVars, peakVars, moreVars>>
\* the variables of the parts above
coreVars == <<convVars, mainVars, parseVars, readVars, binVars, encVars, peakVars>>

\* ------------------------------------------------------- time and stamps
IntervalTicks(I) == I * Res
HalfTicks_None(I) == 0
HalfTicks(I) == (I \div 2) * Res

FloorToMultiple_Identity(t, I) == t
\* (ts // interval_s) * interval_s
FloorToMultiple(t, I) == (t \div IntervalTicks(I)) * IntervalTicks(I)

SecOf(t) == t \div Res
\* strftime("%H%M%S"): hour, minute, second of the UTC time of day
HHMMSS(t) == << (SecOf(t) \div 3600) % 24, (SecOf(t) \div 60) % 60, SecOf(t) % 60 >>
\* strftime("%d%H%M"): day of month, hour, minute
DDHHMM(t) == << (SecOf(t) \div 86400) + 1, (SecOf(t) \div 3600) % 24, (SecOf(t) \div 60) % 60 >>

\* f"{n:02d}": the decimal digits of n, zero-padded to two
RECURSIVE Digits(_)
Digits(n) == IF n < 10 THEN <<n>> ELSE Append(Digits(n \div 10), n % 10)
Fmt02d(n) == IF n < 10 THEN <<0, n>> ELSE Digits(n)

\* ------------------------------------------------------------- sorting
\* sorted(rows, key=lambda r: r.t): stable, ascending by timestamp
RECURSIVE InsertByT(_, _)
InsertByT(s, r) ==
    IF s = <<>> THEN <<r>>
    ELSE IF s[Len(s)].t <= r.t THEN Append(s, r)
    ELSE Append(InsertByT(SubSeq(s, 1, Len(s) - 1), r), s[Len(s)])

RECURSIVE SortedByT(_)
SortedByT(s) ==
    IF s = <<>> THEN <<>>
    ELSE InsertByT(SortedByT(SubSeq(s, 1, Len(s) - 1)), s[Len(s)])

\* ------------------------------------------------------------- binning
RECURSIVE TakeWhileBefore_Inclusive(_, _, _)
TakeWhileBefore_Inclusive(rs, k, bound) ==
    IF k < Len(rs) /\ rs[k + 1].t <= bound
    THEN TakeWhileBefore_Inclusive(rs, k + 1, bound)
    ELSE k

\* while i < len(rows) and rows[i].t < cur_bin_end: i += 1
RECURSIVE TakeWhileBefore(_, _, _)
TakeWhileBefore(rs, k, bound) ==
    IF k < Len(rs) /\ rs[k + 1].t < bound
    THEN TakeWhileBefore(rs, k + 1, bound)
    ELSE k

NextBinStart_Strict(rs, k, cur_bin_end, I) ==
    IF k < Len(rs) /\ rs[k + 1].t > cur_bin_end + IntervalTicks(I)
    THEN FloorToMultiple(rs[k + 1].t, I)
    ELSE cur_bin_end

NextBinStart_NoJump(rs, k, cur_bin_end, I) == cur_bin_end

\* bin_start = cur_bin_end, re-anchored when the next sample lies a whole
\* interval or more beyond it
NextBinStart(rs, k, cur_bin_end, I) ==
    IF k < Len(rs) /\ rs[k + 1].t >= cur_bin_end + IntervalTicks(I)
    THEN FloorToMultiple(rs[k + 1].t, I)
    ELSE cur_bin_end

\* mid_time and the rendered line of one bin
ReportLine(bstart, I, bin_rows) ==
    [kind |-> "report", hhmmss |-> HHMMSS(bstart + HalfTicks(I))]

EmitLine_Prepend(lines, line) == <<line>> \o lines
\* out_lines.append(line)
EmitLine(lines, line) == Append(lines, line)

\* ----------------------------------------------------------- packaging
NL == [kind |-> "nl"]
EndMarker == [kind |-> "end"]

\* sep.join(pieces) for pieces that are sequences of text items
RECURSIVE Join(_, _)
Join(sep, pieces) ==
    IF pieces = <<>> THEN <<>>
    ELSE IF Len(pieces) = 1 THEN pieces[1]
    ELSE pieces[1] \o sep \o Join(sep, Tail(pieces))

Chunk_Short(lines, idx, K) == SubSeq(lines, idx + 1, Min(idx + K, Len(lines)) - 1)
\* out_lines[i:i + lines_per_msg]
Chunk(lines, idx, K) == SubSeq(lines, idx + 1, Min(idx + K, Len(lines)))

\* header and mission line of message obnum
HeaderLine(ddhhmm) == [kind |-> "header", wmo |-> "URNT15", center |-> "KNHC", ddhhmm |-> ddhhmm]
MissionLine(obnum) ==
    [kind |-> "mission", mission |-> "AFXXX 0000A INVEST", obnum |-> Fmt02d(obnum),
     date |-> "storm_date"]

\* msg = "\n".join([header, mission_line] + lines + ["$$"])
Message(ddhhmm, obnum, lines) ==
    Join(<<NL>>, [k \in 1..(Len(lines) + 3) |->
        IF k = 1 THEN <<HeaderLine(ddhhmm)>>
        ELSE IF k = 2 THEN <<MissionLine(obnum)>>
        ELSE IF k = Len(lines) + 3 THEN <<EndMarker>>
        ELSE <<lines[k - 2]>>])

\* for obnum, i in enumerate(range(0, len(out_lines), lines_per_msg), start=1)
NumChunks(n, K) == (n + K - 1) \div K
Messages(lines, K, ddhhmm) ==
    [m \in 1..NumChunks(Len(lines), K) |-> Message(ddhhmm, m, Chunk(lines, (m - 1) * K, K))]

OutputText_NoTrailingNewline(msgs) == Join(<<NL, NL>>, msgs)
\* "\n\n".join(msgs) + ("\n" if msgs else "")
OutputText(msgs) == Join(<<NL, NL>>, msgs) \o (IF msgs # <<>> THEN <<NL>> ELSE <<>>)

\* datetime.now(): any stamp
NowStamps == {DDHHMM(t) : t \in SampleTicks}

\* ------------------------------------------- convert_iwg1_to_hdob, steps
\* Entry: the empty-list return, the sort and the alignment of the first bin.
ConvEntry ==
    /\ c_pc = "called"
    /\ IF rows = <<>>
       THEN /\ text' = <<>>
            /\ c_pc' = "returned"
            /\ UNCHANGED <<rows, start, bin_start>>
       ELSE /\ rows' = SortedByT(rows)
            /\ start' = rows'[1].t
            /\ bin_start' = FloorToMultiple(rows'[1].t, interval_s)
            /\ c_pc' = "loop"
            /\ UNCHANGED text
    /\ i' = 0
    /\ out_lines' = <<>>
    /\ UNCHANGED <<in_rows, interval_s, lines_per_msg, bins, iters>>
    /\ UNCHANGED <<mainVars, parseVars, otherVars>>

\* One iteration of the outer while loop.
ConvBinStep ==
    /\ c_pc = "loop"
    /\ i < Len(rows)
    /\ LET cur_bin_end == bin_start + IntervalTicks(interval_s)
           i2 == TakeWhileBefore(rows, i, cur_bin_end)
           bin_rows == SubSeq(rows, i + 1, i2)
       IN  /\ i' = i2
           /\ IF bin_rows # <<>>
              THEN /\ out_lines' = EmitLine(out_lines, ReportLine(bin_start, interval_s, bin_rows))
                   /\ bins' = Append(bins, [start |-> bin_start, lo |-> i + 1, hi |-> i2])
              ELSE UNCHANGED <<out_lines, bins>>
           /\ bin_start' = NextBinStart(rows, i2, cur_bin_end, interval_s)
    /\ iters' = iters + 1
    /\ UNCHANGED <<c_pc, in_rows, rows, interval_s, lines_per_msg, start, text>>
    /\ UNCHANGED <<mainVars, parseVars, otherVars>>

\* Loop exit: chunk the lines into messages and return the text.
ConvPackage ==
    /\ c_pc = "loop"
    /\ i >= Len(rows)
    /\ \E ddhhmm \in (IF out_lines # <<>>
                      THEN {DDHHMM(start + HalfTicks(interval_s))}
                      ELSE NowStamps) :
          text' = OutputText(Messages(out_lines, lines_per_msg, ddhhmm))
    /\ c_pc' = "returned"
    /\ UNCHANGED <<in_rows, rows, interval_s, lines_per_msg, start, bin_start, i,
                   out_lines, bins, iters>>
    /\ UNCHANGED <<mainVars, parseVars, otherVars>>

ConvNext == ConvEntry \/ ConvBinStep \/ ConvPackage

ConvIdle ==
    /\ c_pc = "idle"
    /\ in_rows = <<>>
    /\ rows = <<>>
    /\ interval_s = 30
    /\ lines_per_msg = 1
    /\ start = 0
    /\ bin_start = 0
    /\ i = 0
    /\ out_lines = <<>>
    /\ bins = <<>>
    /\ iters = 0
    /\ text = <<>>

\* The call convert_iwg1_to_hdob(rs, interval_s=I, lines_per_msg=K)
ConvCalled(rs, I, K) ==
    /\ c_pc = "called"
    /\ in_rows = rs
    /\ rows = rs
    /\ interval_s = I
    /\ lines_per_msg = K
    /\ start = 0
    /\ bin_start = 0
    /\ i = 0
    /\ out_lines = <<>>
    /\ bins = <<>>
    /\ iters = 0
    /\ text = <<>>

vars == <<convVars, mainVars, parseVars, otherVars>>

MainIdle ==
    /\ m_pc = "idle"
    /\ args = <<>>
    /\ parsed = <<>>
    /\ m_rows = <<>>
    /\ start_sec = None
    /\ end_sec = None
    /\ rc = None
    /\ stderr = <<>>
    /\ stdout = <<>>
    /\ out_file = None

ParseIdle ==
    /\ p_pc = "idle"
    /\ parts = <<>>
    /\ p_row = None

ReadIdle ==
    /\ r_pc = "idle"
    /\ r_text = <<>>
    /\ r_workers = 1
    /\ parts_list = <<>>
    /\ futures = <<>>
    /\ running = <<>>
    /\ next_task = 1
    /\ done_order = <<>>
    /\ r_rows = <<>>

BinIdle ==
    /\ b_pc = "idle"
    /\ b_rows = <<>>
    /\ b_perm = <<>>
    /\ b_out = None
    /\ b_out2 = None

EncIdle ==
    /\ e_pc = "idle"
    /\ e_args = <<>>
    /\ e_out = <<>>

PeakIdle ==
    /\ k_pc = "idle"
    /\ k_times = <<>>
    /\ k_spds = <<>>
    /\ k_idx = 0
    /\ dq = <<>>
    /\ sum_s = [kind |-> "finite", num |-> 0, den |-> 1]
    /\ count = 0
    /\ best_mean = [kind |-> "finite", num |-> 0, den |-> 1]
    /\ k_ret = None

MissionIdle ==
    /\ a_pc = "idle"
    /\ url_or_path = <<>>
    /\ a_ret = None

PosIdle ==
    /\ l_pc = "idle"
    /\ l_lat = [kind |-> "finite", num |-> 0, den |-> 1]
    /\ l_lon = [kind |-> "finite", num |-> 0, den |-> 1]
    /\ l_tokens = None
    /\ l_decoded = None

WindIdle ==
    /\ w_pc = "idle"
    /\ wd_deg = <<>>
    /\ ws_ms = <<>>
    /\ w_ret = None

GuiIdle ==
    /\ g_pc = "idle"
    /\ run_button = "disabled"
    /\ controls = "disabled"
    /\ times_valid = TRUE
    /\ out_exists = "absent"
    /\ workers = <<>>
    /\ worker_queue = <<>>
    /\ polls = 0
    /\ reports = <<>>

MoreIdle == MissionIdle /\ PosIdle /\ WindIdle /\ GuiIdle

OtherIdle == ReadIdle /\ BinIdle /\ EncIdle /\ PeakIdle /\ MoreIdle

\* convert_iwg1_to_hdob called directly, on any list of samples in any order
Init ==
    /\ \E rs \in SeqsUpTo(SampleRows, MaxRows), I \in Intervals, K \in 1..MaxK :
          ConvCalled(rs, I, K)
    /\ MainIdle
    /\ ParseIdle
    /\ OtherIdle

Next == ConvNext

Spec == Init /\ [][Next]_vars

\* Timestamps for the loop: two in one bin of every interval, and one
\* many intervals later
LoopTicks == {34, 59, 790}
\* convert_iwg1_to_hdob called on lists with repeated timestamps and gaps
InitLoop ==
    /\ \E rs \in SeqsUpTo({IWG1Row(t) : t \in LoopTicks}, MaxRows), I \in Intervals, K \in 1..MaxK :
          ConvCalled(rs, I, K)
    /\ MainIdle
    /\ ParseIdle
    /\ OtherIdle
\* The call runs on: a statement that can be executed is executed
SpecLoop == InitLoop /\ [][Next]_vars /\ WF_vars(Next)

\* text.split("\n"): the lines of a text, each the items between two newlines
RECURSIVE SplitNL(_)
SplitNL(s) ==
    IF s = <<>> THEN << <<>> >>
    ELSE LET rest == SplitNL(Tail(s))
         IN  IF Head(s) = NL THEN << <<>> >> \o rest
             ELSE << <<Head(s)>> \o Head(rest) >> \o Tail(rest)

\* ------------------------------------------------------------------ main
\* Sample timestamps of the file main reads, in ticks
MainTicks == {34, 40, 94, 250}
MainRowSet == {IWG1Row(t) : t \in MainTicks}
\* Valid --start / --end values, in seconds of the day
WindowSecs == {20, 100}

\* main's return values
RcOk == 0
RcNoRowsParsed == 2
RcNoOutput == 3
RcBadStart == 4
RcBadEnd == 5

\* A --start / --end argument: not given (or empty), a text that
\* _time_input_to_seconds rejects, or a text it accepts as sec seconds.
TimeArgs ==
    {[kind |-> "absent"], [kind |-> "bad"]} \cup {[kind |-> "ok", sec |-> n] : n \in WindowSecs}

\* The command lines argparse accepts. --storm-date is absent or a YYYYMMDD
\* date, --lines-per-message is at least 1.
ArgSets ==
    [start : TimeArgs, end : TimeArgs, out : BOOLEAN, interval : Intervals,
     lines_per_message : 1..MaxK]

\* _time_input_to_seconds(s) if s else None
TimeInputToSeconds(a) ==
    CASE a.kind = "absent" -> [raised |-> FALSE, value |-> None]
      [] a.kind = "ok"     -> [raised |-> FALSE, value |-> Some(a.sec)]
      [] OTHER             -> [raised |-> TRUE, value |-> None]

\* t.hour * 3600 + t.minute * 60 + t.second
SecondOfDay(t) == SecOf(t) % 86400

KeepRow_NoWrap(sec, s, e) ==
    IF s # None /\ e # None THEN s[1] <= sec /\ sec <= e[1]
    ELSE IF s # None THEN sec >= s[1]
    ELSE sec <= e[1]
\* keep, for one row with second of the day sec (lines 419-427)
KeepRow(sec, s, e) ==
    IF s # None /\ e # None
    THEN IF s[1] <= e[1]
         THEN s[1] <= sec /\ sec <= e[1]
         ELSE sec >= s[1] \/ sec <= e[1]
    ELSE IF s # None THEN sec >= s[1]
    ELSE sec <= e[1]

FilterRowsByTimeOfDay(rs, s, e) ==
    IF s = None /\ e = None THEN rs
    ELSE LET Keep(r) == KeepRow(SecondOfDay(r.t), s, e)
         IN  SelectSeq(rs, Keep)

HasOutput_Always(t) == TRUE
\* "if not text" fails
HasOutput(t) == t # <<>>

\* rows = read_iwg1(...); if not rows: return 2
MainRead ==
    /\ m_pc = "read"
    /\ \E rs \in SeqsUpTo(MainRowSet, MainMaxRows) :
          /\ parsed' = rs
          /\ m_rows' = rs
          /\ IF rs = <<>>
             THEN /\ stderr' = Append(stderr, "No IWG1 rows parsed.")
                  /\ rc' = Some(RcNoRowsParsed)
                  /\ m_pc' = "done"
             ELSE /\ m_pc' = "validate"
                  /\ UNCHANGED <<stderr, rc>>
    /\ UNCHANGED <<args, start_sec, end_sec, stdout, out_file>>
    /\ UNCHANGED <<convVars, parseVars, otherVars>>

\* read_iwg1 raises: the file cannot be opened, the download fails
MainReadFails ==
    /\ m_pc = "read"
    /\ m_pc' = "raised"
    /\ UNCHANGED <<args, parsed, m_rows, start_sec, end_sec, rc, stderr, stdout, out_file>>
    /\ UNCHANGED <<convVars, parseVars, otherVars>>

\* Validate start/end
MainValidate ==
    /\ m_pc = "validate"
    /\ LET s == TimeInputToSeconds(args.start)
           e == TimeInputToSeconds(args.end)
       IN  IF s.raised
           THEN /\ stderr' = Append(stderr, "Invalid --start value")
                /\ rc' = Some(RcBadStart)
                /\ m_pc' = "done"
                /\ UNCHANGED <<start_sec, end_sec>>
           ELSE IF e.raised
           THEN /\ stderr' = Append(stderr, "Invalid --end value")
                /\ rc' = Some(RcBadEnd)
                /\ m_pc' = "done"
                /\ start_sec' = s.value
                /\ UNCHANGED end_sec
           ELSE /\ start_sec' = s.value
                /\ end_sec' = e.value
                /\ m_pc' = "filter"
                /\ UNCHANGED <<stderr, rc>>
    /\ UNCHANGED <<args, parsed, m_rows, stdout, out_file>>
    /\ UNCHANGED <<convVars, parseVars, otherVars>>

\* The time window: rows = _filter_rows_by_time_of_day(rows, start_sec, end_sec)
MainFilter ==
    /\ m_pc = "filter"
    /\ IF start_sec # None \/ end_sec # None
       THEN LET rows_filtered == FilterRowsByTimeOfDay(m_rows, start_sec, end_sec)
            IN  /\ m_rows' = rows_filtered
                /\ stdout' = stdout \o <<[kind |-> "read", n |-> Len(m_rows)],
                                         [kind |-> "remain", n |-> Len(rows_filtered)]>>
                /\ stderr' = IF rows_filtered = <<>>
                             THEN Append(stderr, "No rows after filtering -- no HDOB will be produced.")
                             ELSE stderr
       ELSE /\ stdout' = Append(stdout, [kind |-> "read", n |-> Len(m_rows)])
            /\ UNCHANGED <<m_rows, stderr>>
    /\ m_pc' = "call"
    /\ UNCHANGED <<args, parsed, start_sec, end_sec, rc, out_file>>
    /\ UNCHANGED <<convVars, parseVars, otherVars>>

\* text = convert_iwg1_to_hdob(rows, ..., interval_s=args.interval,
\*                             lines_per_msg=args.lines_per_message)
\* (first_date, storm_date and mission only supply the fixed texts of the
\* mission line)
MainCallConvert ==
    /\ m_pc = "call"
    /\ m_pc' = "converting"
    /\ c_pc' = "called"
    /\ in_rows' = m_rows
    /\ rows' = m_rows
    /\ interval_s' = args.interval
    /\ lines_per_msg' = args.lines_per_message
    /\ UNCHANGED <<start, bin_start, i, out_lines, bins, iters, text>>
    /\ UNCHANGED <<args, parsed, m_rows, start_sec, end_sec, rc, stderr, stdout, out_file>>
    /\ UNCHANGED <<parseVars, otherVars>>

\* if not text: return 3; else write the file or print the text; return 0
MainFinish ==
    /\ m_pc = "converting"
    /\ c_pc = "returned"
    /\ IF ~HasOutput(text)
       THEN /\ stderr' = Append(stderr, "No HDOB output generated.")
            /\ rc' = Some(RcNoOutput)
            /\ UNCHANGED <<stdout, out_file>>
       ELSE /\ rc' = Some(RcOk)
            /\ UNCHANGED stderr
            /\ IF args.out
               THEN /\ out_file' = Some(text)
                    /\ stdout' = Append(stdout, [kind |-> "wrote", n |-> Len(SplitNL(text)) - 1])
               ELSE /\ stdout' = Append(stdout, [kind |-> "hdob", text |-> text])
                    /\ UNCHANGED out_file
    /\ m_pc' = "done"
    /\ UNCHANGED <<args, parsed, m_rows, start_sec, end_sec>>
    /\ UNCHANGED <<convVars, parseVars, otherVars>>

InitMain ==
    /\ m_pc = "read"
    /\ args \in ArgSets
    /\ parsed = <<>>
    /\ m_rows = <<>>
    /\ start_sec = None
    /\ end_sec = None
    /\ rc = None
    /\ stderr = <<>>
    /\ stdout = <<>>
    /\ out_file = None
    /\ ConvIdle
    /\ ParseIdle
    /\ OtherIdle

NextMain ==
    \/ MainRead
    \/ MainReadFails
    \/ MainValidate
    \/ MainFilter
    \/ MainCallConvert
    \/ ConvEntry
    \/ ConvBinStep
    \/ ConvPackage
    \/ MainFinish

SpecMain == InitMain /\ [][NextMain]_vars

\* ------------------------------------------------- parse_float, float()
\* A token is a sequence of characters.
WhiteSpace == {" ", "\t"}
DigitChars == {"0", "1", "2", "3", "4", "5", "6", "7", "8", "9"}
DigitVal(c) ==
    CASE c = "0" -> 0 [] c = "1" -> 1 [] c = "2" -> 2 [] c = "3" -> 3 [] c = "4" -> 4
      [] c = "5" -> 5 [] c = "6" -> 6 [] c = "7" -> 7 [] c = "8" -> 8 [] c = "9" -> 9

\* str.lower(), on the letters the tokens use
LowerChar(c) ==
    CASE c = "A" -> "a" [] c = "B" -> "b" [] c = "C" -> "c" [] c = "E" -> "e"
      [] c = "F" -> "f" [] c = "I" -> "i" [] c = "N" -> "n" [] c = "T" -> "t"
      [] c = "X" -> "x" [] c = "Y" -> "y" [] OTHER -> c
Lower(s) == [k \in 1..Len(s) |-> LowerChar(s[k])]

\* str.strip()
RECURSIVE LStrip(_)
LStrip(s) == IF s # <<>> /\ Head(s) \in WhiteSpace THEN LStrip(Tail(s)) ELSE s
RECURSIVE RStrip(_)
RStrip(s) ==
    IF s # <<>> /\ s[Len(s)] \in WhiteSpace THEN RStrip(SubSeq(s, 1, Len(s) - 1)) ELSE s
Strip(s) == RStrip(LStrip(s))

\* The length of the longest prefix of s that is a digit run: digits, with
\* single underscores allowed between two digits.
RECURSIVE DigitRun(_, _)
DigitRun(s, k) ==
    IF k < Len(s) /\ s[k + 1] \in DigitChars THEN DigitRun(s, k + 1)
    ELSE IF k >= 1 /\ k + 1 < Len(s) /\ s[k + 1] = "_" /\ s[k + 2] \in DigitChars
         THEN DigitRun(s, k + 2)
    ELSE k

IsDigitChar(c) == c \in DigitChars
DigitsOf(s) == LET ds == SelectSeq(s, IsDigitChar) IN [k \in 1..Len(ds) |-> DigitVal(ds[k])]

RECURSIVE DropLeadingZeros(_)
DropLeadingZeros(ds) ==
    IF ds # <<>> /\ Head(ds) = 0 THEN DropLeadingZeros(Tail(ds)) ELSE ds

RECURSIVE NatOf(_)
NatOf(ds) == IF ds = <<>> THEN 0 ELSE 10 * NatOf(SubSeq(ds, 1, Len(ds) - 1)) + ds[Len(ds)]

\* Decimal strings at or above this magnitude round to infinity: 2^1024 - 2^970,
\* the largest double plus half a unit in the last place (its first 40 digits)
OverflowExp10 == 308
OverflowDigits ==
    <<1, 7, 9, 7, 6, 9, 3, 1, 3, 4, 8, 6, 2, 3, 1, 5, 8, 0, 7, 9, 
     3, 7, 2, 8, 9, 7, 1, 4, 0, 5, 3, 0, 3, 4, 1, 5, 0, 7, 9, 9>>

\* ds >= OverflowDigits, both read as decimal fractions d.ddd...
RECURSIVE FracGeq(_, _)
FracGeq(ds, bound) ==
    IF bound = <<>> THEN TRUE
    ELSE IF ds = <<>> THEN \A k \in 1..Len(bound) : bound[k] = 0
    ELSE IF Head(ds) # Head(bound) THEN Head(ds) > Head(bound)
    ELSE FracGeq(Tail(ds), Tail(bound))

\* The double nearest to (-1)^neg * 0.d1d2... * 10^e: finite, or infinite on overflow
Rounded(neg, mant, exp10) ==
    LET ds == DropLeadingZeros(mant)
        sci == Len(ds) - 1 + exp10
    IN  IF ds = <<>> THEN [kind |-> "finite", neg |-> neg, digits |-> <<>>, exp |-> 0]
        ELSE IF sci > OverflowExp10 \/ (sci = OverflowExp10 /\ FracGeq(ds, OverflowDigits))
        THEN [kind |-> "inf", neg |-> neg]
        ELSE [kind |-> "finite", neg |-> neg, digits |-> ds, exp |-> exp10]

ValueError == [kind |-> "ValueError"]

\* The decimal part of float(): digits [. digits] [e [sign] digits]
DecimalLiteral(neg, s) ==
    LET n1 == DigitRun(s, 0)
        hasDot == n1 < Len(s) /\ s[n1 + 1] = "."
        afterDot == IF hasDot THEN SubSeq(s, n1 + 2, Len(s)) ELSE SubSeq(s, n1 + 1, Len(s))
        n2 == IF hasDot THEN DigitRun(afterDot, 0) ELSE 0
        rest == SubSeq(afterDot, n2 + 1, Len(afterDot))
        intDigits == DigitsOf(SubSeq(s, 1, n1))
        fracDigits == DigitsOf(SubSeq(afterDot, 1, n2))
        hasExp == rest # <<>> /\ LowerChar(Head(rest)) = "e"
        expBody == IF hasExp THEN Tail(rest) ELSE <<>>
        expNeg == expBody # <<>> /\ Head(expBody) = "-"
        expDigitsText == IF expBody # <<>> /\ Head(expBody) \in {"+", "-"}
                         THEN Tail(expBody) ELSE expBody
        n3 == DigitRun(expDigitsText, 0)
        e == NatOf(DigitsOf(expDigitsText))
    IN  IF n1 + n2 = 0 THEN ValueError
        ELSE IF ~hasExp
        THEN IF rest = <<>> THEN Rounded(neg, intDigits \o fracDigits, - Len(fracDigits))
             ELSE ValueError
        ELSE IF n3 = 0 \/ n3 # Len(expDigitsText) THEN ValueError
        ELSE Rounded(neg, intDigits \o fracDigits, (IF expNeg THEN - e ELSE e) - Len(fracDigits))

\* Python's float(x) on a string
PyFloat(x) ==
    LET s == Strip(x)
        signed == s # <<>> /\ Head(s) \in {"+", "-"}
        neg == s # <<>> /\ Head(s) = "-"
        body == IF signed THEN Tail(s) ELSE s
        word == Lower(body)
    IN  IF word \in {<<"i", "n", "f">>, <<"i", "n", "f", "i", "n", "i", "t", "y">>}
        THEN [kind |-> "inf", neg |-> neg]
        ELSE IF word = <<"n", "a", "n">> THEN [kind |-> "nan"]
        ELSE DecimalLiteral(neg, body)

\* The tokens parse_float maps to None before calling float()
MissingWords ==
    {<<"n", "a", "n">>, <<"i", "n", "f">>, <<"+", "i", "n", "f">>, <<"-", "i", "n", "f">>}

\* parse_float
ParseFloat(tok) ==
    LET x == Strip(tok)
    IN  IF x = <<>> \/ Lower(x) \in MissingWords THEN None
        ELSE LET f == PyFloat(x) IN IF f = ValueError THEN None ELSE Some(f)

\* --------------------------------------------------------- parse_iwg1_row
\* A timestamp field: a text one of parse_time's layouts accepts, read as the
\* instant t, or a text none accepts.
TimeText(t) == [ok |-> TRUE, t |-> t]
BadTimeText == [ok |-> FALSE]

\* parse_time: the instant, or ValueError
ParseTime(x) == IF x.ok THEN [raised |-> FALSE, t |-> x.t] ELSE [raised |-> TRUE]

\* Python list index idx of the fields
Get(ps, idx) == IF idx < Len(ps) THEN ParseFloat(ps[idx + 1]) ELSE None

\* Python indexes of the numeric fields parse_iwg1_row reads
NumericFields == {2, 3, 4, 5, 20, 21, 23, 26, 27}

\* Lines 104-115: the row made of the parsed time t and the fields get(idx)
Iwg1RowOf(t, get) ==
    LET gps_msl_alt_m == get[4]
    IN  IF t.raised THEN None
        ELSE Some([t |-> t.t,
                   lat |-> get[2],
                   lon |-> get[3],
                   ps_hpa |-> get[23],
                   ga_m |-> IF gps_msl_alt_m # None THEN gps_msl_alt_m ELSE get[5],
                   temp_c |-> get[20],
                   td_c |-> get[21],
                   wspd_ms |-> get[26],
                   wdir_deg |-> get[27]])

ParseIwg1Row(ps) == Iwg1RowOf(ParseTime(ps[2]), [idx \in NumericFields |-> Get(ps, idx)])

\* The tokens a numeric field is tried with
NumericTokens ==
    { <<>>, <<" ">>, <<"7">>, <<"-", "3", ".", "5">>, <<" ", "1", "2", ".", "5", " ">>,
      <<"1", "e", "5">>, <<"1", "_", "0">>, <<".", "5">>, <<"0", ".", "0">>,
      <<"n", "a", "n">>, <<"N", "a", "N">>, <<"i", "n", "f">>, <<"+", "i", "n", "f">>,
      <<"-", "I", "N", "F">>, <<" ", "i", "n", "f", " ">>,
      <<"i", "n", "f", "i", "n", "i", "t", "y">>, <<"-", "I", "n", "f", "i", "n", "i", "t", "y">>,
      <<"+", "n", "a", "n">>, <<"-", "n", "a", "n">>,
      <<"1", "e", "9", "9", "9">>, <<"-", "1", "e", "9", "9", "9">>, <<"1", "e", "-", "9", "9", "9">>,
      <<"a", "b", "c">>, <<"1", "e">>, <<"-", "-", "1">>, <<"0", "x", "1", "0">>, <<"1", ".", "2", ".", "3">> }

\* Numbers of fields of a candidate line (at least 3)
PartsLens == {3, 5, 6, 24, 28, 33}
AltTokens == {<<>>, <<"7">>, <<"I", "n", "f", "i", "n", "i", "t", "y">>}
TimeTexts == {BadTimeText} \cup {TimeText(t) : t \in MainTicks}

\* A candidate line: "IWG1", the timestamp, and plain numeric fields except
\* for field idx (token tok) and the secondary altitude (token alt).
CandidateLine(len, tt, idx, tok, alt) ==
    [k \in 1..len |->
        IF k = 1 THEN <<"I", "W", "G", "1">>
        ELSE IF k = 2 THEN tt
        ELSE IF k = idx + 1 THEN tok
        ELSE IF k = 6 THEN alt
        ELSE <<"7">>]

ParseRowStep ==
    /\ p_pc = "line"
    /\ p_row' = ParseIwg1Row(parts)
    /\ p_pc' = "parsed"
    /\ UNCHANGED parts
    /\ UNCHANGED <<convVars, mainVars, otherVars>>

InitParse ==
    /\ p_pc = "line"
    /\ \E len \in PartsLens, tt \in TimeTexts, idx \in NumericFields,
          tok \in NumericTokens, alt \in AltTokens :
          parts = CandidateLine(len, tt, idx, tok, alt)
    /\ p_row = None
    /\ ConvIdle
    /\ MainIdle
    /\ OtherIdle

NextParse == ParseRowStep

SpecParse == InitParse /\ [][NextParse]_vars

\* ---------------------------------------------------------------- read_iwg1
\* A line of the text is given by its comma-separated fields (the empty
\* tuple: a blank line). The lines a text is made of:
ReadLineSet ==
    { <<>>,
      << <<"I", "W", "G", "1">>, TimeText(34) >>,
      CandidateLine(3, TimeText(34), 2, <<"7">>, <<>>),
      CandidateLine(6, TimeText(94), 3, <<"-", "3", ".", "5">>, <<"7">>),
      CandidateLine(6, BadTimeText, 2, <<"7">>, <<"7">>) }

\* iwg1_iter_lines_from_text: the stripped lines that start with "IWG1," and
\* have at least three fields
IsCandidate(line) == Len(line) >= 3 /\ line[1] = <<"I", "W", "G", "1">>
IterLines(lines) == SelectSeq(lines, IsCandidate)

\* [parse_iwg1_row(p) for p in parts_list]
SerialRows(pl) == [k \in 1..Len(pl) |-> ParseIwg1Row(pl[k])]

IsRow(x) == x # None
DropNones_UntilFirstNone(results) ==
    LET firstNone == CHOOSE k \in 1..(Len(results) + 1) :
                        /\ k <= Len(results) => results[k] = None
                        /\ \A j \in 1..(k - 1) : results[j] # None
        kept == SubSeq(results, 1, firstNone - 1)
    IN  [k \in 1..Len(kept) |-> kept[k][1]]
\* [r for r in rows if r is not None]
DropNones(results) ==
    LET kept == SelectSeq(results, IsRow)
    IN  [k \in 1..Len(kept) |-> kept[k][1]]

PoolResults_AsCompleted(fs, order) == [k \in 1..Len(order) |-> fs[order[k]][1]]
\* list(ex.map(parse_iwg1_row, parts_list)): the results in the order of
\* submission
PoolResults(fs, order) == [k \in 1..Len(fs) |-> fs[k][1]]

\* Lines 392-401: the candidate lines; none: return []; workers <= 1: the
\* serial parse, the filter and the return; else the pool is started with
\* every task submitted
ReadStart ==
    /\ r_pc = "text"
    /\ parts_list' = IterLines(r_text)
    /\ IF parts_list' = <<>>
       THEN /\ r_rows' = <<>>
            /\ r_pc' = "returned"
            /\ UNCHANGED <<futures, running>>
       ELSE IF r_workers <= 1
       THEN /\ r_rows' = DropNones(SerialRows(parts_list'))
            /\ r_pc' = "returned"
            /\ UNCHANGED <<futures, running>>
       ELSE /\ futures' = [k \in 1..Len(parts_list') |-> None]
            /\ running' = [w \in 1..r_workers |-> 0]
            /\ r_pc' = "pool"
            /\ UNCHANGED r_rows
    /\ UNCHANGED <<r_text, r_workers, next_task, done_order>>
    /\ UNCHANGED <<convVars, mainVars, parseVars, binVars, encVars, peakVars, moreVars>>

\* An idle worker thread takes the next task off the work queue
WorkerTake(w) ==
    /\ r_pc = "pool"
    /\ w \in DOMAIN running
    /\ running[w] = 0
    /\ next_task <= Len(parts_list)
    /\ running' = [running EXCEPT ![w] = next_task]
    /\ next_task' = next_task + 1
    /\ UNCHANGED <<r_text, r_workers, parts_list, futures, done_order, r_rows, r_pc>>
    /\ UNCHANGED <<convVars, mainVars, parseVars, binVars, encVars, peakVars, moreVars>>

\* A worker thread finishes parse_iwg1_row and sets the result of its future
WorkerFinish(w) ==
    /\ r_pc = "pool"
    /\ w \in DOMAIN running
    /\ running[w] # 0
    /\ futures' = [futures EXCEPT ![running[w]] = Some(ParseIwg1Row(parts_list[running[w]]))]
    /\ done_order' = Append(done_order, running[w])
    /\ running' = [running EXCEPT ![w] = 0]
    /\ UNCHANGED <<r_text, r_workers, parts_list, next_task, r_rows, r_pc>>
    /\ UNCHANGED <<convVars, mainVars, parseVars, binVars, encVars, peakVars, moreVars>>

\* list(ex.map(...)) has every result; the filter and the return
ReadCollect ==
    /\ r_pc = "pool"
    /\ \A k \in 1..Len(futures) : futures[k] # None
    /\ r_rows' = DropNones(PoolResults(futures, done_order))
    /\ r_pc' = "returned"
    /\ UNCHANGED <<r_text, r_workers, parts_list, futures, running, next_task, done_order>>
    /\ UNCHANGED <<convVars, mainVars, parseVars, binVars, encVars, peakVars, moreVars>>

InitRead ==
    /\ r_pc = "text"
    /\ r_text \in SeqsUpTo(ReadLineSet, MaxTextLines)
    /\ r_workers \in 1..MaxWorkers
    /\ parts_list = <<>>
    /\ futures = <<>>
    /\ running = <<>>
    /\ next_task = 1
    /\ done_order = <<>>
    /\ r_rows = <<>>
    /\ ConvIdle
    /\ MainIdle
    /\ ParseIdle
    /\ BinIdle
    /\ EncIdle
    /\ PeakIdle
    /\ MoreIdle

NextRead ==
    \/ ReadStart
    \/ \E w \in 1..MaxWorkers : WorkerTake(w)
    \/ \E w \in 1..MaxWorkers : WorkerFinish(w)
    \/ ReadCollect

SpecRead == InitRead /\ [][NextRead]_vars

\* ----------------------------------------------------------------- numbers
\* The value of a double: a rational num/den in lowest terms with den > 0,
\* an infinity, or NaN.
RECURSIVE Gcd(_, _)
Gcd(a, b) == IF b = 0 THEN a ELSE Gcd(b, a % b)
Abs(n) == IF n < 0 THEN - n ELSE n
Ratio(n, d) ==
    LET g == Gcd(Abs(n), Abs(d))
        sgn == IF d < 0 THEN -1 ELSE 1
    IN  [kind |-> "finite", num |-> sgn * (n \div g), den |-> sgn * (d \div g)]
Whole(n) == Ratio(n, 1)
Inf(neg) == [kind |-> "inf", neg |-> neg]
NaN == [kind |-> "nan"]

RECURSIVE Pow10(_)
Pow10(k) == IF k = 0 THEN 1 ELSE 10 * Pow10(k - 1)

\* The number a double returned by float() stands for; a decimal string
\* below the smallest subnormal is 0.0
FloatValue(f) ==
    IF f.kind # "finite" THEN f
    ELSE IF f.digits = <<>> \/ Len(f.digits) + f.exp < -323 THEN Whole(0)
    ELSE LET n == IF f.neg THEN - NatOf(f.digits) ELSE NatOf(f.digits)
         IN  IF f.exp >= 0 THEN Whole(n * Pow10(f.exp)) ELSE Ratio(n, Pow10(- f.exp))

IsNeg(x) == IF x.kind = "inf" THEN x.neg ELSE x.kind = "finite" /\ x.num < 0
IsZero(x) == x.kind = "finite" /\ x.num = 0

\* -x, x + y, x - y, x * y, x / n on doubles
NumNeg(x) ==
    CASE x.kind = "finite" -> Ratio(- x.num, x.den)
      [] x.kind = "inf"    -> Inf(~ x.neg)
      [] OTHER             -> NaN
NumAdd(x, y) ==
    IF x.kind = "nan" \/ y.kind = "nan" THEN NaN
    ELSE IF x.kind = "inf" THEN (IF y.kind = "inf" /\ y.neg # x.neg THEN NaN ELSE x)
    ELSE IF y.kind = "inf" THEN y
    ELSE Ratio(x.num * y.den + y.num * x.den, x.den * y.den)
NumSub(x, y) == NumAdd(x, NumNeg(y))
NumMul(x, y) ==
    IF x.kind = "nan" \/ y.kind = "nan" THEN NaN
    ELSE IF x.kind = "finite" /\ y.kind = "finite" THEN Ratio(x.num * y.num, x.den * y.den)
    ELSE IF IsZero(x) \/ IsZero(y) THEN NaN
    ELSE Inf(IsNeg(x) # IsNeg(y))
NumDivInt(x, n) == IF x.kind = "finite" THEN Ratio(x.num, x.den * n) ELSE x

\* x < y, x <= y, x > y, x >= y on doubles: every comparison with NaN is false
NumLt(x, y) ==
    IF x.kind = "nan" \/ y.kind = "nan" THEN FALSE
    ELSE IF x.kind = "inf" THEN x.neg /\ ~ (y.kind = "inf" /\ y.neg)
    ELSE IF y.kind = "inf" THEN ~ y.neg
    ELSE x.num * y.den < y.num * x.den
NumLe(x, y) == x.kind # "nan" /\ y.kind # "nan" /\ (x = y \/ NumLt(x, y))
NumGt(x, y) == NumLt(y, x)
NumGe(x, y) == NumLe(y, x)

\* Outcomes of a call: it raised, or it returned a value
Raised == [raised |-> TRUE]
Ok(v) == [raised |-> FALSE, value |-> v]

\* round() of the rational n/d, d > 0: to the nearest integer, ties to even
RoundHalfEven(n, d) ==
    LET q == n \div d
        r == n - q * d
    IN  IF 2 * r < d THEN q
        ELSE IF 2 * r > d THEN q + 1
        ELSE IF q % 2 = 0 THEN q ELSE q + 1

\* int(round(x)): OverflowError on an infinity, ValueError on NaN
IntRound(x) == IF x.kind = "finite" THEN Ok(RoundHalfEven(x.num, x.den)) ELSE Raised

\* -------------------------------------------------------------- formatting
DigitChar(k) ==
    CASE k = 0 -> "0" [] k = 1 -> "1" [] k = 2 -> "2" [] k = 3 -> "3" [] k = 4 -> "4"
      [] k = 5 -> "5" [] k = 6 -> "6" [] k = 7 -> "7" [] k = 8 -> "8" [] k = 9 -> "9"
DecChars(n) == LET ds == Digits(n) IN [k \in 1..Len(ds) |-> DigitChar(ds[k])]
RECURSIVE ZeroPad(_, _)
ZeroPad(cs, w) == IF Len(cs) >= w THEN cs ELSE ZeroPad(<<"0">> \o cs, w)
\* f"{n:0wd}": at least w characters, the sign of a negative number included
FmtD(n, w) == IF n < 0 THEN <<"-">> \o ZeroPad(DecChars(- n), w - 1) ELSE ZeroPad(DecChars(n), w)
\* a run of w slashes
Fill(w) == [k \in 1..w |-> "/"]

\* KTS_PER_MPS = 1.9438444924406, to seven digits
KTS_PER_MPS == Ratio(1943844, 1000000)

\* ------------------------------------------------------------------ physics
\* isa_z_from_p at the pressures drawn: <<ps_hpa in 1/100 hPa, z in 1/1000 m>>
IsaZRows ==
    {<<0, 44330769>>, <<4, 37891149>>, <<5, 37611864>>, <<15, 36049896>>,
     <<42325, 6783919>>, <<50000, 5574382>>, <<54990, 4866534>>, <<55000, 4865169>>,
     <<70000, 3012151>>, <<85000, 1457285>>, <<101320, 416>>}
\* extrapolate_surface_pressure without a temperature:
\* <<ps_hpa in 1/100 hPa, z_m in m, p0 in 1/1000 hPa>>
SurfacePressureStdRows ==
    {<<55000, 1500, 669117>>, <<55000, 5454, 1084987>>, <<55000, 8000, 1447063>>,
     <<70000, 1500, 844282>>, <<70000, 5454, 1341981>>, <<70000, 8000, 1770291>>,
     <<85000, 1500, 1018374>>, <<85000, 5454, 1593785>>, <<85000, 8000, 2084486>>,
     <<101320, 1500, 1206832>>, <<101320, 5454, 1863175>>, <<101320, 8000, 2418421>>}
\* extrapolate_surface_pressure with a temperature:
\* <<ps_hpa in 1/100 hPa, z_m in m, t_c in 1/10 degree, p0 in 1/1000 hPa>>
SurfacePressureRows ==
    {<<55000, 1500, 125, 656096>>, <<55000, 5454, 125, 1016480>>, <<55000, 8000, 125, 1321986>>,
     <<70000, 1500, 125, 835031>>, <<70000, 5454, 125, 1293702>>, <<70000, 8000, 125, 1682528>>,
     <<85000, 1500, 125, 1013966>>, <<85000, 5454, 125, 1570924>>, <<85000, 8000, 125, 2043070>>,
     <<101320, 1500, 125, 1208648>>, <<101320, 5454, 125, 1872541>>, <<101320, 8000, 125, 2435339>>,
     <<85000, 1500, -35, 1024444>>, <<85000, 1500, 45, 1019044>>}
\* the same at the means of three temperatures, t_c in 1/60 degree
SurfacePressureMeanRows ==
    {<<85000, 1500, 430, 1017317>>, <<85000, 1500, 110, 1020806>>}

\* isa_z_from_p: (ps / P0_STD) ** expo is a complex number when ps < 0 and
\* max(0.0, z) then raises TypeError; otherwise the height in metres
IsaZFromP(ps_hpa) ==
    IF ps_hpa.num < 0 THEN Raised
    ELSE LET row == CHOOSE row \in IsaZRows : Ratio(row[1], 100) = ps_hpa
         IN  Ok(Ratio(row[2], 1000))

\* d_value_m on present or Missing arguments
DValueM(ga_m, ps_hpa) ==
    IF ga_m = None \/ ps_hpa = None THEN Ok(None)
    ELSE LET z_std == IsaZFromP(ps_hpa[1])
         IN  IF z_std.raised THEN Raised
             ELSE LET d == IntRound(NumSub(ga_m[1], z_std.value))
                  IN  IF d.raised THEN Raised ELSE Ok(Some(d.value))

\* T_bar = T_z + 0.5 * LAPSE * z_m, in thousandths of a kelvin: T_z is
\* T0_STD - LAPSE * z_est without a temperature, t_c + 273.15 with one
LayerMeanTemp(ps_hpa, z_m, t_c) ==
    LET T_z == IF t_c = None
               THEN NumSub(Whole(288150), NumMul(Ratio(13, 2), IsaZFromP(ps_hpa).value))
               ELSE NumAdd(NumMul(t_c[1], Whole(1000)), Whole(273150))
    IN  NumAdd(T_z, NumMul(Ratio(13, 4), z_m))

\* ps_hpa * math.exp(G0 * z_m / (R_D * T_bar)) for a finite T_bar > 0
SurfacePressure(ps_hpa, z_m, t_c) ==
    IF t_c = None
    THEN LET row == CHOOSE row \in SurfacePressureStdRows :
                        Ratio(row[1], 100) = ps_hpa /\ Whole(row[2]) = z_m
         IN  Ratio(row[3], 1000)
    ELSE LET table == {<<r[1], r[2], Ratio(r[3], 10), r[4]>> : r \in SurfacePressureRows}
                          \cup {<<r[1], r[2], Ratio(r[3], 60), r[4]>> : r \in SurfacePressureMeanRows}
             row == CHOOSE row \in table :
                        Ratio(row[1], 100) = ps_hpa /\ Whole(row[2]) = z_m /\ row[3] = t_c[1]
         IN  Ratio(row[4], 1000)

\* math.exp raises OverflowError when its argument G0 * z_m / (R_D * T_bar)
\* exceeds 709.78: G0 / R_D is 34.164 mK per metre, T_bar is in thousandths
\* of a kelvin and positive
ExpOverflows(z_m, T_bar) ==
    /\ z_m.kind = "finite" /\ T_bar.kind = "finite"
    /\ T_bar.num \div T_bar.den < ((z_m.num \div z_m.den) * 34164 + 709779) \div 709780

\* extrapolate_surface_pressure, for a finite or Missing pressure and altitude
ExtrapolateSurfacePressure(ps_hpa, z_m, t_c) ==
    IF ps_hpa = None \/ z_m = None THEN Ok(None)
    ELSE IF t_c = None /\ IsaZFromP(ps_hpa[1]).raised THEN Raised
    ELSE LET T_bar == LayerMeanTemp(ps_hpa[1], z_m[1], t_c)
         IN  IF NumLe(T_bar, Whole(0)) THEN Ok(None)
             ELSE IF T_bar.kind = "inf" THEN Ok(Some(ps_hpa[1]))
             ELSE IF T_bar.kind = "nan" THEN Ok(Some(NaN))
             ELSE IF ExpOverflows(z_m[1], T_bar) THEN Raised
             ELSE Ok(Some(SurfacePressure(ps_hpa[1], z_m[1], t_c)))

\* ----------------------------------------------------------------- encoders
\* lat_to_LLLLH and lon_to_NNNNNH: w digits of degrees, two of minutes, the
\* hemisphere letter; math.floor raises on an infinity and on NaN
DegMinHemi(x, w, pos, neg) ==
    IF x.kind # "finite" THEN Raised
    ELSE LET a == IF x.num < 0 THEN NumNeg(x) ELSE x
             deg0 == a.num \div a.den
             min0 == RoundHalfEven(60 * (a.num - deg0 * a.den), a.den)
             deg == IF min0 = 60 THEN deg0 + 1 ELSE deg0
             minutes == IF min0 = 60 THEN 0 ELSE min0
         IN  Ok(FmtD(deg, w) \o FmtD(minutes, 2) \o <<IF x.num >= 0 THEN pos ELSE neg>>)
LatToLLLLH(lat) == DegMinHemi(lat, 2, "N", "S")
LonToNNNNNH(lon) == DegMinHemi(lon, 3, "E", "W")

EncodePPPP(ps_hpa) ==
    IF ps_hpa = None THEN Ok(Fill(4))
    ELSE LET tenths == IntRound(NumMul(ps_hpa[1], Whole(10)))
         IN  IF tenths.raised THEN Raised
             ELSE Ok(FmtD(IF tenths.value >= 10000 THEN tenths.value - 10000 ELSE tenths.value, 4))

EncodeGGGGG(z_m) ==
    IF z_m = None THEN Ok(Fill(5))
    ELSE LET val == IntRound(z_m[1])
         IN  IF val.raised THEN Raised ELSE Ok(FmtD(val.value, 5))

\* encode_XXXX, for a finite or Missing pressure and altitude
EncodeXXXX(ps_hpa, z_m, t_c) ==
    IF ps_hpa = None \/ z_m = None THEN Ok(Fill(4))
    ELSE IF NumGe(ps_hpa[1], Whole(550))
    THEN LET p0 == ExtrapolateSurfacePressure(ps_hpa, z_m, t_c)
         IN  IF p0.raised THEN Raised ELSE EncodePPPP(p0.value)
    ELSE LET d == DValueM(z_m, ps_hpa)
         IN  IF d.raised THEN Raised
             ELSE IF d.value = None THEN Ok(Fill(4))
             ELSE LET d2 == IF d.value[1] < 0 THEN 5000 + d.value[1] ELSE d.value[1]
                  IN  Ok(FmtD(d2 % 10000, 4))

EncodeSxxx(val_c) ==
    IF val_c = None THEN Ok(Fill(3))
    ELSE LET sign == IF NumGe(val_c[1], Whole(0)) THEN "+" ELSE "-"
             mag == IntRound(NumMul(IF IsNeg(val_c[1]) THEN NumNeg(val_c[1]) ELSE val_c[1], Whole(10)))
         IN  IF mag.raised THEN Raised ELSE Ok(<<sign>> \o FmtD(mag.value, 3))

EncodeWwwSSS(wdir_deg, wspd_ms) ==
    IF wdir_deg = None \/ wspd_ms = None THEN Ok(Fill(6))
    ELSE LET www == IntRound(wdir_deg[1])
         IN  IF www.raised THEN Raised
             ELSE LET sss == IntRound(NumMul(wspd_ms[1], KTS_PER_MPS))
                  IN  IF sss.raised THEN Raised
                      ELSE Ok(FmtD(www.value % 360, 3) \o FmtD(sss.value, 3))

\* encode_TTT on an integer (or None)
EncodeTTT(val) == IF val = None THEN Ok(Fill(3)) ELSE Ok(FmtD(val[1], 3))

\* ---------------------------------------------------------------- mean wind
\* math.sin and math.cos of math.radians(d), for a direction on a cardinal
\* point: exactly 0 or +-1, or a rounding residue of the sign given ("+e",
\* "-e"); d is finite. Off the axes, one direction of each quadrant whose
\* sine and cosine are 3/5 and 4/5 in size: 36.87, 126.87, 216.87 and 306.87
\* degrees, to two places
OffAxis(q) == Ratio(9000 * q + 3687, 100)
SinDeg(d) ==
    CASE d = Whole(0) -> "0" [] d = Whole(90) -> "+1" [] d = Whole(180) -> "+e" [] d = Whole(270) -> "-1"
      [] d = OffAxis(0) -> "+3/5" [] d = OffAxis(1) -> "+4/5"
      [] d = OffAxis(2) -> "-3/5" [] d = OffAxis(3) -> "-4/5"
CosDeg(d) ==
    CASE d = Whole(0) -> "+1" [] d = Whole(90) -> "+e" [] d = Whole(180) -> "-1" [] d = Whole(270) -> "-e"
      [] d = OffAxis(0) -> "+4/5" [] d = OffAxis(1) -> "-3/5"
      [] d = OffAxis(2) -> "-4/5" [] d = OffAxis(3) -> "+3/5"

\* s * c for such a sine or cosine c; a residue times a finite speed is
\* below every rounding step and counts as zero
MulTrig(s, c) ==
    IF s.kind = "nan" THEN NaN
    ELSE IF s.kind = "inf" THEN (IF c = "0" THEN NaN ELSE IF c \in {"+1", "+e"} THEN s ELSE NumNeg(s))
    ELSE CASE c = "+1" -> s
           [] c = "-1" -> NumNeg(s)
           [] c = "+3/5" -> NumMul(s, Ratio(3, 5))
           [] c = "-3/5" -> NumMul(s, Ratio(-3, 5))
           [] c = "+4/5" -> NumMul(s, Ratio(4, 5))
           [] c = "-4/5" -> NumMul(s, Ratio(-4, 5))
           [] OTHER -> Whole(0)

\* |x| of a finite x
NumAbs(x) == IF x.num < 0 THEN NumNeg(x) ELSE x
\* |y| : |x| is 3 : 4
ThreeToFour(y, x) == NumMul(NumAbs(y), Whole(4)) = NumMul(NumAbs(x), Whole(3))

\* math.hypot(u, v) with u and v on an axis, or with sizes in the ratio 3 : 4
Hypot(u, v) ==
    IF u.kind = "inf" \/ v.kind = "inf" THEN Inf(FALSE)
    ELSE IF u.kind = "nan" \/ v.kind = "nan" THEN NaN
    ELSE CASE IsZero(v) -> NumAbs(u)
           [] IsZero(u) -> NumAbs(v)
           [] ThreeToFour(u, v) -> NumMul(NumAbs(u), Ratio(5, 3))
           [] ThreeToFour(v, u) -> NumMul(NumAbs(v), Ratio(5, 3))

\* (math.degrees(math.atan2(y, x)) + 360.0) % 360.0 off the origin
Atan2Deg(y, x) ==
    IF y.kind = "nan" \/ x.kind = "nan" THEN NaN
    ELSE IF y.kind = "inf" /\ x.kind = "inf"
    THEN Whole(IF ~ y.neg THEN (IF ~ x.neg THEN 45 ELSE 135) ELSE (IF ~ x.neg THEN 315 ELSE 225))
    ELSE IF y.kind = "inf" THEN Whole(IF y.neg THEN 270 ELSE 90)
    ELSE IF x.kind = "inf" THEN Whole(IF x.neg THEN 180 ELSE 0)
    ELSE CASE IsZero(x) /\ y.num > 0 -> Whole(90)
           [] IsZero(x) /\ y.num < 0 -> Whole(270)
           [] IsZero(y) /\ x.num > 0 -> Whole(0)
           [] IsZero(y) /\ x.num < 0 -> Whole(180)
           [] ThreeToFour(y, x) /\ y.num > 0 /\ x.num > 0 -> OffAxis(0)
           [] ThreeToFour(x, y) /\ y.num > 0 /\ x.num < 0 -> OffAxis(1)
           [] ThreeToFour(y, x) /\ y.num < 0 /\ x.num < 0 -> OffAxis(2)
           [] ThreeToFour(x, y) /\ y.num < 0 /\ x.num > 0 -> OffAxis(3)

\* The sums u and v over the (direction, speed) pairs; math.sin raises
\* ValueError on an infinite direction
RECURSIVE WindSums(_, _)
WindSums(d_list, s_list) ==
    IF d_list = <<>> THEN Ok([u |-> Whole(0), v |-> Whole(0)])
    ELSE LET n == Len(d_list)
             front == WindSums(SubSeq(d_list, 1, n - 1), SubSeq(s_list, 1, n - 1))
             d == d_list[n]
             s == s_list[n]
         IN  IF front.raised \/ d.kind = "inf" THEN Raised
             ELSE IF d.kind = "nan"
             THEN Ok([u |-> NaN, v |-> NaN])
             ELSE Ok([u |-> NumAdd(front.value.u, MulTrig(NumNeg(s), SinDeg(d))),
                      v |-> NumAdd(front.value.v, MulTrig(NumNeg(s), CosDeg(d)))])

\* vector_mean_wind on lists without None: (None, None), or (deg, spd)
VectorMeanWind_Sum(d_list, s_list) ==
    IF d_list = <<>> \/ s_list = <<>> THEN Ok(<<None, None>>)
    ELSE LET sums == WindSums(d_list, s_list)
         IN  IF sums.raised THEN Raised
             ELSE Ok(<<Some(Atan2Deg(NumNeg(sums.value.u), NumNeg(sums.value.v))),
                       Some(Hypot(sums.value.u, sums.value.v))>>)
VectorMeanWind(d_list, s_list) ==
    IF d_list = <<>> \/ s_list = <<>> THEN Ok(<<None, None>>)
    ELSE LET sums == WindSums(d_list, s_list)
         IN  IF sums.raised THEN Raised
             ELSE LET u == NumDivInt(sums.value.u, Len(d_list))
                      v == NumDivInt(sums.value.v, Len(d_list))
                  IN  Ok(<<Some(Atan2Deg(NumNeg(u), NumNeg(v))), Some(Hypot(u, v))>>)

\* ------------------------------------------------------------ peak 10-s mean
\* timedelta(seconds=10), in ticks
WindowTicks == 10 * Res

\* max(a, b) of Python: b only if b > a
PyMax(a, b) == IF NumGt(b, a) THEN b ELSE a

\* while dq and dq[0][0] < tmin: popleft and subtract
RECURSIVE PeakEvict(_, _)
PeakEvict(w, tmin) ==
    IF w.dq # <<>> /\ w.dq[1][1] < tmin
    THEN PeakEvict([dq |-> Tail(w.dq), sum_s |-> NumSub(w.sum_s, w.dq[1][2]), count |-> w.count - 1], tmin)
    ELSE w

\* One iteration of the loop over the samples, on the sample (t, s)
PeakStep(st, t, s) ==
    LET w == PeakEvict([dq |-> Append(st.dq, <<t, s>>), sum_s |-> NumAdd(st.sum_s, s),
                        count |-> st.count + 1], t - WindowTicks)
    IN  [dq |-> w.dq, sum_s |-> w.sum_s, count |-> w.count,
         best_mean |-> IF w.count > 0 THEN PyMax(st.best_mean, NumDivInt(w.sum_s, w.count))
                       ELSE st.best_mean]

PeakStart == [dq |-> <<>>, sum_s |-> Whole(0), count |-> 0, best_mean |-> Whole(0)]

\* samples = [(t, s) for t, s in zip(times, spd_ms_list) if s is not None]
PeakSamples(times, spds) ==
    LET n == Min(Len(times), Len(spds))
        pairs == [k \in 1..n |-> <<times[k], spds[k]>>]
        HasSpeed(p) == p[2] # None
        kept == SelectSeq(pairs, HasSpeed)
    IN  [k \in 1..Len(kept) |-> <<kept[k][1], kept[k][2][1]>>]

RECURSIVE PeakLoop(_, _)
PeakLoop(samples, n) ==
    IF n = 0 THEN PeakStart ELSE PeakStep(PeakLoop(samples, n - 1), samples[n][1], samples[n][2])

\* max(s for _, s in samples)
RECURSIVE MaxSpeed(_, _)
MaxSpeed(samples, n) ==
    IF n = 1 THEN samples[1][2] ELSE PyMax(MaxSpeed(samples, n - 1), samples[n][2])

\* The value returned after the loop
PeakReturn_NoFallback(samples, best) == NumMul(best, KTS_PER_MPS)
PeakReturn(samples, best) ==
    IF IsZero(best) THEN NumMul(MaxSpeed(samples, Len(samples)), KTS_PER_MPS)
    ELSE NumMul(best, KTS_PER_MPS)

ComputePeak10s(times, spds) ==
    IF times = <<>> THEN None
    ELSE LET samples == PeakSamples(times, spds)
         IN  IF samples = <<>> THEN None
             ELSE Some(PeakReturn(samples, PeakLoop(samples, Len(samples)).best_mean))

\* ------------------------------------------------- one bin: reduce and render
\* A parsed row with the values of its doubles
OptValue(x) == IF x = None THEN None ELSE Some(FloatValue(x[1]))
Sample(r) ==
    [t |-> r.t, lat |-> OptValue(r.lat), lon |-> OptValue(r.lon), ps_hpa |-> OptValue(r.ps_hpa),
     ga_m |-> OptValue(r.ga_m), temp_c |-> OptValue(r.temp_c), td_c |-> OptValue(r.td_c),
     wspd_ms |-> OptValue(r.wspd_ms), wdir_deg |-> OptValue(r.wdir_deg)]

\* [r.f for r in bin_rows if r.f is not None]
FieldVals(bin_rows, f) ==
    LET Has(r) == r[f] # None
        sel == SelectSeq(bin_rows, Has)
    IN  [k \in 1..Len(sel) |-> sel[k][f][1]]

\* sum(vals): from 0, left to right
RECURSIVE NumSum(_)
NumSum(vals) ==
    IF vals = <<>> THEN Whole(0)
    ELSE NumAdd(NumSum(SubSeq(vals, 1, Len(vals) - 1)), vals[Len(vals)])

\* sum(vals)/len(vals) if vals else None
MeanOf(bin_rows, f) ==
    IF FieldVals(bin_rows, f) = <<>> THEN None
    ELSE Some(NumDivInt(NumSum(FieldVals(bin_rows, f)), Len(FieldVals(bin_rows, f))))

\* The rows with both wind direction and wind speed
HasWind(r) == r.wdir_deg # None /\ r.wspd_ms # None

\* strftime("%H%M%S") as characters
TimeGroup(t) == FmtD(HHMMSS(t)[1], 2) \o FmtD(HHMMSS(t)[2], 2) \o FmtD(HHMMSS(t)[3], 2)

\* The body of "if bin_rows:": the outcome is Raised, or the report line as
\* its thirteen groups
RenderBin(bin_rows, bstart, I) ==
    LET mid_time == bstart + HalfTicks(I)
        lat == MeanOf(bin_rows, "lat")
        lon == MeanOf(bin_rows, "lon")
        ps == MeanOf(bin_rows, "ps_hpa")
        ga == MeanOf(bin_rows, "ga_m")
        t_c == MeanOf(bin_rows, "temp_c")
        td_c == MeanOf(bin_rows, "td_c")
        windy == SelectSeq(bin_rows, HasWind)
        wind == VectorMeanWind(FieldVals(windy, "wdir_deg"), FieldVals(windy, "wspd_ms"))
        peak10 == ComputePeak10s([k \in 1..Len(bin_rows) |-> bin_rows[k].t],
                                 [k \in 1..Len(bin_rows) |-> bin_rows[k].wspd_ms])
        lat_str == IF lat # None THEN LatToLLLLH(lat[1]) ELSE Ok(Fill(5))
        lon_str == IF lon # None THEN LonToNNNNNH(lon[1]) ELSE Ok(Fill(6))
        pppp == EncodePPPP(ps)
        ggggg == EncodeGGGGG(ga)
        xxxx == EncodeXXXX(ps, ga, t_c)
        sTTT == EncodeSxxx(t_c)
        sddd == EncodeSxxx(td_c)
        wwwSSS == EncodeWwwSSS(wind.value[1], wind.value[2])
        MMM == IF peak10 = None \/ peak10[1].kind = "nan" THEN Fill(3)
               ELSE LET knots == IntRound(peak10[1])
                    IN  IF knots.raised THEN Fill(3) ELSE EncodeTTT(Some(knots.value)).value
    IN  IF \/ wind.raised
           \/ lat_str.raised
           \/ lon_str.raised
           \/ pppp.raised
           \/ ggggg.raised
           \/ xxxx.raised
           \/ sTTT.raised
           \/ sddd.raised
           \/ wwwSSS.raised
        THEN Raised
        ELSE Ok([hhmmss |-> TimeGroup(mid_time), lat_str |-> lat_str.value,
                 lon_str |-> lon_str.value, pppp |-> pppp.value, ggggg |-> ggggg.value,
                 xxxx |-> xxxx.value, sTTT |-> sTTT.value, sddd |-> sddd.value,
                 wwwSSS |-> wwwSSS.value, MMM |-> MMM, KKK |-> Fill(3), ppp |-> Fill(3),
                 FF |-> <<"0", "0">>])

\* f"{hhmmss} {lat_str} ... {FF}": the groups in the order of the line
LineGroups(line) ==
    <<line.hhmmss, line.lat_str, line.lon_str, line.pppp, line.ggggg, line.xxxx, line.sTTT,
      line.sddd, line.wwwSSS, line.MMM, line.KKK, line.ppp, line.FF>>

\* Timestamps inside the bin that starts at the epoch, in ticks
BinTicks == {34, 59}
\* The interval the one-bin calls use (the default of interval_s)
BinInterval == 30

\* The token a well-formed field of index idx (Python index) carries
BaseToken(idx) ==
    CASE idx = 2  -> <<"2", "5", ".", "5">>
      [] idx = 3  -> <<"-", "8", "0", ".", "2", "5">>
      [] idx = 4  -> <<"1", "5", "0", "0">>
      [] idx = 20 -> <<"1", "2", ".", "5">>
      [] idx = 21 -> <<"7">>
      [] idx = 23 -> <<"8", "5", "0">>
      [] idx = 26 -> <<"1", "0">>
      [] idx = 27 -> <<"9", "0">>
      [] OTHER    -> <<>>

Infinity == <<"I", "n", "f", "i", "n", "i", "t", "y">>
\* The other tokens a field is tried with: empty, a second value, a
\* negative value, an infinity, a NaN
OtherTokens(idx) ==
    CASE idx = 2  -> {<<>>, <<"-", "3", ".", "5">>, Infinity}
      [] idx = 3  -> {<<>>, <<"2", "0">>}
      [] idx = 4  -> {<<>>}
      [] idx = 20 -> {<<>>, <<"-", "3", ".", "5">>, <<"+", "n", "a", "n">>}
      [] idx = 21 -> {<<>>, <<"2", "0">>}
      [] idx = 23 -> {<<>>, <<"-", "3", ".", "5">>, Infinity}
      [] idx = 26 -> {<<>>, <<"2", "0">>, Infinity, <<"+", "n", "a", "n">>}
      [] idx = 27 -> {<<>>, Infinity}

BinFields == {2, 3, 4, 20, 21, 23, 26, 27}
\* Numbers of fields of the lines: all fields, or cut short after the
\* static pressure, or after the second altitude
ShortLens == {6, 24}

\* A candidate line of len fields: well-formed but for field idx
BinLine(len, tt, idx, tok) ==
    [k \in 1..len |->
        IF k = 1 THEN <<"I", "W", "G", "1">>
        ELSE IF k = 2 THEN tt
        ELSE IF k = idx + 1 THEN tok
        ELSE BaseToken(k - 1)]

\* A line with an empty wind direction and the wind speed tok
NoDirectionLine(tt, tok) == [BinLine(28, tt, 26, tok) EXCEPT ![28] = <<>>]

BinLines ==
    UNION {{BinLine(28, TimeText(t), idx, tok) : t \in BinTicks, tok \in OtherTokens(idx)} :
              idx \in BinFields}
    \cup {BinLine(len, TimeText(t), 2, BaseToken(2)) : len \in ShortLens \cup {28}, t \in BinTicks}
    \cup {NoDirectionLine(TimeText(t), tok) : t \in BinTicks, tok \in OtherTokens(26)}

\* The samples the parser makes of such lines
BinSamples == {Sample(ParseIwg1Row(line)[1]) : line \in BinLines}

RECURSIVE Perms(_)
\* The orders a list can be passed in
Perms(s) ==
    IF s = <<>> THEN {<<>>}
    ELSE UNION {{<<s[k]>> \o p : p \in Perms([j \in 1..(Len(s) - 1) |-> IF j < k THEN s[j] ELSE s[j + 1]])} :
                   k \in 1..Len(s)}

\* convert_iwg1_to_hdob on samples of one bin: sorted, reduced, rendered
ConvertOneBin(rs) ==
    LET sorted == SortedByT(rs)
    IN  RenderBin(sorted, FloorToMultiple(sorted[1].t, BinInterval), BinInterval)

\* The first call, on the samples in the caller's order
BinConvert ==
    /\ b_pc = "first"
    /\ b_out' = Some(ConvertOneBin(b_rows))
    /\ b_pc' = "second"
    /\ UNCHANGED <<b_rows, b_perm, b_out2>>
    /\ UNCHANGED <<convVars, mainVars, parseVars, readVars, encVars, peakVars, moreVars>>

\* The second call, on the same samples in another order
BinConvertAgain ==
    /\ b_pc = "second"
    /\ b_out2' = Some(ConvertOneBin(b_perm))
    /\ b_pc' = "done"
    /\ UNCHANGED <<b_rows, b_perm, b_out>>
    /\ UNCHANGED <<convVars, mainVars, parseVars, readVars, encVars, peakVars, moreVars>>

InitBin ==
    /\ b_pc = "first"
    /\ b_rows \in SeqsUpTo(BinSamples, MaxBinRows) \ {<<>>}
    /\ b_perm \in Perms(b_rows)
    /\ b_out = None
    /\ b_out2 = None
    /\ ConvIdle
    /\ MainIdle
    /\ ParseIdle
    /\ ReadIdle
    /\ EncIdle
    /\ PeakIdle
    /\ MoreIdle

NextBin == BinConvert \/ BinConvertAgain

SpecBin == InitBin /\ [][NextBin]_vars

\* A few lines for the layout of the report line: complete and cut short at
\* both timestamps, without wind speed, pressure or temperature, and with a
\* negative temperature
LayoutLines ==
    {BinLine(len, TimeText(t), 2, BaseToken(2)) : len \in {6, 28}, t \in BinTicks}
    \cup {BinLine(28, TimeText(34), idx, <<>>) : idx \in {20, 23, 26}}
    \cup {BinLine(28, TimeText(59), 20, <<"-", "3", ".", "5">>)}
LayoutSamples == {Sample(ParseIwg1Row(line)[1]) : line \in LayoutLines}

InitLayout ==
    /\ b_pc = "first"
    /\ b_rows \in SeqsUpTo(LayoutSamples, MaxBinRows) \ {<<>>}
    /\ b_perm \in Perms(b_rows)
    /\ b_out = None
    /\ b_out2 = None
    /\ ConvIdle /\ MainIdle /\ ParseIdle /\ ReadIdle /\ EncIdle /\ PeakIdle /\ MoreIdle

SpecLayout == InitLayout /\ [][NextBin]_vars

\* ------------------------------------------------- the pressure encoders
\* Pressures the encoders are called with, in hundredths of a hectopascal
EncPressures ==
    {-350, 0, 4, 5, 15, 42325, 50000, 54990, 55000, 70000, 85000, 99990, 99995, 100000,
     101320, 150000, 199990, 199995, 200000, 201320}
\* Altitudes in metres
EncAltitudes == {1500, 5454, 8000}
\* Temperatures: Missing, 12.5 C, -300 C (a layer mean temperature below 0 K)
\* and -298.85 C (a layer mean temperature of 0.3 K at 8000 m, below 0 K at
\* the lower altitudes)
EncTemps == {None, Some(Ratio(125, 10))}
EncColdTemps == {Some(Whole(-300)), Some(Ratio(-29885, 100))}
\* The pressures below and from 550 hPa for which isa_z_from_p and the
\* extrapolation are tabulated
EncLowPressures == {-350} \cup {row[1] : row \in {r \in IsaZRows : r[1] < 55000}}
EncHighPressures == {row[1] : row \in SurfacePressureStdRows}

EncArgs ==
    {[ps_hpa |-> None, z_m |-> z, t_c |-> None] : z \in {None} \cup {Some(Whole(a)) : a \in EncAltitudes}}
    \cup {[ps_hpa |-> Some(Ratio(p, 100)), z_m |-> None, t_c |-> None] : p \in EncPressures}
    \cup {[ps_hpa |-> Some(Ratio(p, 100)), z_m |-> Some(Whole(a)), t_c |-> t] :
              p \in EncLowPressures, a \in EncAltitudes, t \in EncTemps}
    \cup {[ps_hpa |-> Some(Ratio(p, 100)), z_m |-> Some(Whole(a)), t_c |-> t] :
              p \in EncHighPressures, a \in EncAltitudes, t \in EncTemps \cup EncColdTemps}

\* ps_hpa + 1000.0, for a present pressure
PlusThousand(ps_hpa) == IF ps_hpa = None THEN None ELSE Some(NumAdd(ps_hpa[1], Whole(1000)))

\* encode_PPPP(ps_hpa)
EncodePressure ==
    /\ e_pc = "args"
    /\ e_out' = [e_out EXCEPT !.pppp = Some(EncodePPPP(e_args.ps_hpa))]
    /\ e_pc' = "pppp"
    /\ UNCHANGED e_args
    /\ UNCHANGED <<convVars, mainVars, parseVars, readVars, binVars, peakVars, moreVars>>

\* encode_PPPP(ps_hpa + 1000.0)
EncodePressureUp ==
    /\ e_pc = "pppp"
    /\ e_out' = [e_out EXCEPT !.pppp_up = Some(EncodePPPP(PlusThousand(e_args.ps_hpa)))]
    /\ e_pc' = "pppp_up"
    /\ UNCHANGED e_args
    /\ UNCHANGED <<convVars, mainVars, parseVars, readVars, binVars, peakVars, moreVars>>

\* the call of extrapolate_surface_pressure that encode_XXXX makes from 550 hPa
CompositeP0(a) ==
    IF a.ps_hpa # None /\ a.z_m # None /\ NumGe(a.ps_hpa[1], Whole(550))
    THEN Some(ExtrapolateSurfacePressure(a.ps_hpa, a.z_m, a.t_c))
    ELSE None

\* encode_XXXX(ps_hpa, z_m, t_c)
EncodeComposite ==
    /\ e_pc = "pppp_up"
    /\ e_out' = [e_out EXCEPT !.p0 = CompositeP0(e_args),
                              !.xxxx = Some(EncodeXXXX(e_args.ps_hpa, e_args.z_m, e_args.t_c))]
    /\ e_pc' = "encoded"
    /\ UNCHANGED e_args
    /\ UNCHANGED <<convVars, mainVars, parseVars, readVars, binVars, peakVars, moreVars>>

InitEnc ==
    /\ e_pc = "args"
    /\ e_args \in EncArgs
    /\ e_out = [pppp |-> None, pppp_up |-> None, p0 |-> None, xxxx |-> None]
    /\ ConvIdle
    /\ MainIdle
    /\ ParseIdle
    /\ ReadIdle
    /\ BinIdle
    /\ PeakIdle
    /\ MoreIdle

NextEnc == EncodePressure \/ EncodePressureUp \/ EncodeComposite

SpecEnc == InitEnc /\ [][NextEnc]_vars

\* ------------------------------------------- compute_peak10s, step by step
\* Speeds of the samples, in m/s
PeakSpeeds == {10, 20}
\* Lists of up to MaxGapSamples samples may have missing speeds
PeakShortLists == SeqsUpTo({None} \cup {Some(Whole(v)) : v \in PeakSpeeds}, MaxGapSamples)
\* Lists of up to MaxPeakSamples samples that all have a speed
PeakFullLists == SeqsUpTo({Some(Whole(v)) : v \in PeakSpeeds}, MaxPeakSamples)

\* Lines 235-243: the early returns, else the empty window
PeakCall ==
    /\ k_pc = "called"
    /\ IF k_times = <<>> \/ PeakSamples(k_times, k_spds) = <<>>
       THEN /\ k_ret' = None
            /\ k_pc' = "returned"
            /\ UNCHANGED <<dq, sum_s, count, best_mean>>
       ELSE /\ dq' = PeakStart.dq
            /\ sum_s' = PeakStart.sum_s
            /\ count' = PeakStart.count
            /\ best_mean' = PeakStart.best_mean
            /\ k_pc' = "loop"
            /\ UNCHANGED k_ret
    /\ UNCHANGED <<k_times, k_spds, k_idx>>
    /\ UNCHANGED <<convVars, mainVars, parseVars, readVars, binVars, encVars, moreVars>>

\* Lines 244-252: one iteration of the loop
PeakIterate ==
    /\ k_pc = "loop"
    /\ k_idx < Len(PeakSamples(k_times, k_spds))
    /\ LET sample == PeakSamples(k_times, k_spds)[k_idx + 1]
           st == PeakStep([dq |-> dq, sum_s |-> sum_s, count |-> count, best_mean |-> best_mean],
                          sample[1], sample[2])
       IN  /\ dq' = st.dq
           /\ sum_s' = st.sum_s
           /\ count' = st.count
           /\ best_mean' = st.best_mean
    /\ k_idx' = k_idx + 1
    /\ UNCHANGED <<k_pc, k_times, k_spds, k_ret>>
    /\ UNCHANGED <<convVars, mainVars, parseVars, readVars, binVars, encVars, moreVars>>

\* Lines 253-256: the loop is over; the return value in knots
PeakFinish ==
    /\ k_pc = "loop"
    /\ k_idx = Len(PeakSamples(k_times, k_spds))
    /\ k_ret' = Some(PeakReturn(PeakSamples(k_times, k_spds), best_mean))
    /\ k_pc' = "returned"
    /\ UNCHANGED <<k_times, k_spds, k_idx, dq, sum_s, count, best_mean>>
    /\ UNCHANGED <<convVars, mainVars, parseVars, readVars, binVars, encVars, moreVars>>

\* compute_peak10s is called on samples one second apart
InitPeak ==
    /\ k_pc = "called"
    /\ k_spds \in PeakShortLists \cup PeakFullLists
    /\ k_times = [k \in 1..Len(k_spds) |-> (k - 1) * Res]
    /\ k_idx = 0
    /\ dq = <<>>
    /\ sum_s = Whole(0)
    /\ count = 0
    /\ best_mean = Whole(0)
    /\ k_ret = None
    /\ ConvIdle
    /\ MainIdle
    /\ ParseIdle
    /\ ReadIdle
    /\ BinIdle
    /\ EncIdle
    /\ MoreIdle

NextPeak == PeakCall \/ PeakIterate \/ PeakFinish

SpecPeak == InitPeak /\ [][NextPeak]_vars

\* Speeds a field of a line can also give: negative, zero, infinite, NaN
PeakOddSpeeds == {Whole(-5), Whole(0), Inf(FALSE), NaN}
\* Lists of up to MaxGapSamples samples with missing speeds and odd ones
PeakOddLists ==
    SeqsUpTo({None} \cup {Some(Whole(v)) : v \in PeakSpeeds} \cup {Some(v) : v \in PeakOddSpeeds},
             MaxGapSamples)
\* Seconds from one sample of such a list to the next: the same timestamp,
\* 1 s, 6 s, and 11 s (more than the window)
PeakSpacings == {0, 1, 6, 11}
\* Lists of up to MaxPeakSamples samples: a run at 10 m/s, then one at 20 m/s
PeakRampLists ==
    {[k \in 1..n |-> Some(Whole(IF k <= a THEN 10 ELSE 20))] : n \in 1..MaxPeakSamples, a \in 0..MaxPeakSamples}

\* compute_peak10s is called on the samples of a bin, in time order: the
\* ramps one second apart, the short lists evenly spaced
InitPeakGaps ==
    /\ k_pc = "called"
    /\ \/ /\ k_spds \in PeakRampLists
          /\ k_times = [k \in 1..Len(k_spds) |-> (k - 1) * Res]
       \/ /\ k_spds \in PeakOddLists
          /\ \E gap \in PeakSpacings : k_times = [k \in 1..Len(k_spds) |-> (k - 1) * gap * Res]
    /\ k_idx = 0
    /\ dq = <<>>
    /\ sum_s = Whole(0)
    /\ count = 0
    /\ best_mean = Whole(0)
    /\ k_ret = None
    /\ ConvIdle /\ MainIdle /\ ParseIdle /\ ReadIdle /\ BinIdle /\ EncIdle /\ MoreIdle

SpecPeakGaps == InitPeakGaps /\ [][NextPeak]_vars


\* ---------------------------------------------------- auto_mission_from_tail
\* url_or_path.split("/")[-1]
RECURSIVE LastSegment(_)
LastSegment_Whole(s) == s
LastSegment(s) ==
    IF \E k \in 1..Len(s) : s[k] = "/"
    THEN LastSegment(SubSeq(s, (CHOOSE k \in 1..Len(s) : s[k] = "/") + 1, Len(s)))
    ELSE s

\* tail.replace("_", " ")
ReplaceUnderscores(s) == [k \in 1..Len(s) |-> IF s[k] = "_" THEN " " ELSE s[k]]

\* hint.split(): the maximal runs of characters that are not whitespace
RECURSIVE SplitWords(_)
SplitWords(s) ==
    LET t == LStrip(s)
        n == IF \E k \in 1..Len(t) : t[k] \in WhiteSpace
             THEN (CHOOSE k \in 1..Len(t) : t[k] \in WhiteSpace /\ \A j \in 1..(k - 1) : t[j] \notin WhiteSpace) - 1
             ELSE Len(t)
    IN  IF t = <<>> THEN <<>> ELSE <<SubSeq(t, 1, n)>> \o SplitWords(SubSeq(t, n + 1, Len(t)))

\* str.upper(), on the letters the file names are made of
UpperChar(c) ==
    CASE c = "a" -> "A" [] c = "b" -> "B" [] c = "l" -> "L" [] c = "x" -> "X" [] OTHER -> c
Upper(s) == [k \in 1..Len(s) |-> UpperChar(s[k])]

\* len(tokens[i]) == 5 and tokens[i][0:4].isdigit() and tokens[i][4] in ("A","B")
IsMissionId(tok) ==
    /\ Len(tok) = 5
    /\ \A k \in 1..4 : tok[k] \in DigitChars
    /\ tok[5] \in {"A", "B"}

MissionFallback ==
    <<"A", "F", "X", "X", "X", " ", "0", "0", "0", "0", "A", " ", "I", "N", "V", "E", "S", "T">>

AutoMissionFromTail(s) ==
    LET tokens == SplitWords(ReplaceUnderscores(LastSegment(s)))
        hits == {n \in 1..(Len(tokens) - 1) : IsMissionId(tokens[n])}
    IN  IF hits = {} THEN MissionFallback
        ELSE LET hit == CHOOSE n \in hits : \A j \in hits : n <= j
             IN  <<"A", "F", "X", "X", "X", " ">> \o tokens[hit] \o <<" ">> \o Upper(tokens[hit + 1])

\* The pieces the file names and URLs are put together from
MissionPieces ==
    { <<"1", "2", "3", "4", "A">>, <<"0", "0", "0", "7", "B">>, <<"1", "2", "3", "4", "C">>,
      <<"1", "2", "3", "4", "a">>, <<"1", "2", "3", "A">>, <<"1", "2", "x", "4", "A">>,
      <<"a", "l">>, <<"/">>, <<"_">>, <<" ">> }

RECURSIVE Concat(_)
Concat(ss) == IF ss = <<>> THEN <<>> ELSE Head(ss) \o Concat(Tail(ss))

MissionCall ==
    /\ a_pc = "called"
    /\ a_ret' = Some(AutoMissionFromTail(url_or_path))
    /\ a_pc' = "returned"
    /\ UNCHANGED url_or_path
    /\ UNCHANGED <<coreVars, posVars, windVars, guiVars>>

InitMission ==
    /\ a_pc = "called"
    /\ url_or_path \in {Concat(ps) : ps \in SeqsUpTo(MissionPieces, MaxPieces)}
    /\ a_ret = None
    /\ ConvIdle
    /\ MainIdle
    /\ ParseIdle
    /\ ReadIdle
    /\ BinIdle
    /\ EncIdle
    /\ PeakIdle
    /\ PosIdle
    /\ WindIdle
    /\ GuiIdle

NextMission == MissionCall

SpecMission == InitMission /\ [][NextMission]_vars


\* ------------------------------------------------ positions and their tokens
\* _RE_LAT and _RE_LON: w digits of degrees, two of minutes, two optional
\* digits of seconds, one hemisphere letter
TokMatches(tok, w, hemis) ==
    /\ Len(tok) \in {w + 3, w + 5}
    /\ \A k \in 1..(Len(tok) - 1) : IsDigitChar(tok[k])
    /\ tok[Len(tok)] \in hemis
TokInt(tok, first, last) == NatOf(DigitsOf(SubSeq(tok, first, last)))
\* deg + minutes/60.0 + secs/3600.0
TokValue_Decimal(deg, minutes, secs) == NumAdd(Whole(deg), Ratio(minutes, 100))
TokValue(deg, minutes, secs) ==
    NumAdd(NumAdd(Whole(deg), Ratio(minutes, 60)), Ratio(secs, 3600))
TokDegrees(tok, w, neg) ==
    LET secs == IF Len(tok) = w + 5 THEN TokInt(tok, w + 3, w + 4) ELSE 0
        v == TokValue(TokInt(tok, 1, w), TokInt(tok, w + 1, w + 2), secs)
    IN  IF tok[Len(tok)] = neg THEN NumNeg(v) ELSE v
\* _tok_to_latlon: None unless both tokens match
TokToLatLon(lat_tok, lon_tok) ==
    IF ~ (TokMatches(lat_tok, 2, {"N", "S"}) /\ TokMatches(lon_tok, 3, {"E", "W"}))
    THEN None
    ELSE Some(<<TokDegrees(lat_tok, 2, "S"), TokDegrees(lon_tok, 3, "W")>>)

\* fractions of a degree: none, below half a minute, the ties at 7.5 and
\* 22.5 minutes, a whole minute, and two that round up to 60 minutes
PosFractions ==
    {Whole(0), Ratio(1, 1000), Ratio(1, 8), Ratio(3, 8), Ratio(1, 60),
     Ratio(119, 120), Ratio(599, 600)}
PosSigned(degs, top) ==
    {NumAdd(Whole(d), f) : d \in degs, f \in PosFractions}
        \cup {NumNeg(NumAdd(Whole(d), f)) : d \in degs, f \in PosFractions}
        \cup {Whole(top), Whole(- top)}
PosLatitudes == PosSigned({0, 25, 89}, 90)
PosLongitudes == PosSigned({0, 99, 179}, 180)

\* the report line's two position tokens
PosEncode ==
    /\ l_pc = "ready"
    /\ l_tokens' = Some(<<LatToLLLLH(l_lat).value, LonToNNNNNH(l_lon).value>>)
    /\ l_pc' = "encoded"
    /\ UNCHANGED <<l_lat, l_lon, l_decoded>>
    /\ UNCHANGED <<coreVars, missionVars, windVars, guiVars>>
\* the plot front end reads them back
PosDecode ==
    /\ l_pc = "encoded"
    /\ l_decoded' = TokToLatLon(l_tokens[1][1], l_tokens[1][2])
    /\ l_pc' = "decoded"
    /\ UNCHANGED <<l_lat, l_lon, l_tokens>>
    /\ UNCHANGED <<coreVars, missionVars, windVars, guiVars>>
InitPos ==
    /\ ConvIdle /\ MainIdle /\ ParseIdle /\ ReadIdle /\ BinIdle /\ EncIdle /\ PeakIdle
    /\ MissionIdle /\ WindIdle /\ GuiIdle
    /\ l_pc = "ready"
    /\ l_lat \in PosLatitudes
    /\ l_lon \in PosLongitudes
    /\ l_tokens = None
    /\ l_decoded = None
NextPos == PosEncode \/ PosDecode
SpecPos == InitPos /\ [][NextPos]_vars


\* ------------------------------------------- the mean of equal wind vectors
\* Directions in degrees: the cardinal points and one direction off the axes
\* in each quadrant; speeds in m/s
WindDirections == {Whole(0), Whole(90), Whole(180), Whole(270)} \cup {OffAxis(q) : q \in 0..3}
WindSpeeds == {Whole(5), Whole(20), Ratio(7, 2), Ratio(1, 100)}

\* vector_mean_wind(d_list, s_list)
WindCall ==
    /\ w_pc = "called"
    /\ w_ret' = Some(VectorMeanWind(wd_deg, ws_ms))
    /\ w_pc' = "returned"
    /\ UNCHANGED <<wd_deg, ws_ms>>
    /\ UNCHANGED <<coreVars, missionVars, posVars, guiVars>>

InitWind ==
    /\ ConvIdle /\ MainIdle /\ ParseIdle /\ ReadIdle /\ BinIdle /\ EncIdle /\ PeakIdle
    /\ MissionIdle /\ PosIdle /\ GuiIdle
    /\ w_pc = "called"
    /\ \E n \in 1..MaxWindSamples, d \in WindDirections, s \in WindSpeeds :
           /\ wd_deg = [k \in 1..n |-> d]
           /\ ws_ms = [k \in 1..n |-> s]
    /\ w_ret = None
NextWind == WindCall
SpecWind == InitWind /\ [][NextWind]_vars


\* ------------------------------------------------- the graphical front end
\* run_button.config(state="normal" if (s_ok and e_ok) else "disabled")
ButtonFor(valid) == IF valid THEN "normal" ELSE "disabled"

\* What recon10s.main does in a worker: it returns 0 after writing the output
\* file, returns 2, 3, 4 or 5 without writing it, or raises (None)
MainOutcomes == {Some(c) : c \in {RcOk, RcNoRowsParsed, RcNoOutput, RcBadStart, RcBadEnd}} \cup {None}

\* result['success'] of _worker_thread_target: an exception of main leaves
\* it False, otherwise it is os.path.exists(out_file)
WorkerSuccess(outcome, exists) == outcome # None /\ exists

\* on_time_entry_change, as the traces on the start and end entries call it:
\* the entries take input only while they are enabled
EditTimes ==
    /\ g_pc = "open"
    /\ controls = "normal"
    /\ \E valid \in BOOLEAN :
          /\ valid # times_valid
          /\ times_valid' = valid
          /\ run_button' = ButtonFor(valid)
    /\ UNCHANGED <<g_pc, controls, out_exists, workers, worker_queue, polls, reports>>
    /\ UNCHANGED <<coreVars, missionVars, posVars, windVars>>

\* on_gui_theme_change, the command of the two theme radio buttons, which
\* _set_controls_state never disables: apply_gui_theme ends with
\* on_time_entry_change()
ThemeChange ==
    /\ g_pc = "open"
    /\ run_button # ButtonFor(times_valid)
    /\ run_button' = ButtonFor(times_valid)
    /\ UNCHANGED <<g_pc, controls, times_valid, out_exists, workers, worker_queue, polls, reports>>
    /\ UNCHANGED <<coreVars, missionVars, posVars, windVars>>

\* start_conversion_worker, the command of the run button, with inputs
\* that pass its checks
StartConversion ==
    /\ g_pc = "open"
    /\ run_button = "normal"
    /\ times_valid
    /\ Len(workers) < MaxRuns
    /\ controls' = "disabled"
    /\ run_button' = "disabled"
    /\ workers' = Append(workers, "running")
    /\ polls' = polls + 1
    /\ UNCHANGED <<g_pc, times_valid, out_exists, worker_queue, reports>>
    /\ UNCHANGED <<coreVars, missionVars, posVars, windVars>>

\* _worker_thread_target, from recon10s.main(argv) to worker_queue.put(result)
WorkerRun ==
    /\ g_pc = "open"
    /\ \E w \in 1..Len(workers), outcome \in MainOutcomes :
          /\ workers[w] = "running"
          /\ out_exists' = IF outcome = Some(RcOk) THEN "fresh"
                           ELSE IF out_exists = "absent" THEN "absent" ELSE "stale"
          /\ worker_queue' =
                 Append(worker_queue,
                        [worker |-> w, rc |-> outcome, wrote |-> outcome = Some(RcOk),
                         success |-> WorkerSuccess(outcome, out_exists' # "absent")])
          /\ workers' = [workers EXCEPT ![w] = "finished"]
    /\ UNCHANGED <<g_pc, run_button, controls, times_valid, polls, reports>>
    /\ UNCHANGED <<coreVars, missionVars, posVars, windVars>>

\* _poll_worker_queue with a result on the queue (with none it only
\* schedules itself again), and _on_worker_done on that result
PollWorkerQueue ==
    /\ g_pc = "open"
    /\ polls > 0
    /\ worker_queue # <<>>
    /\ worker_queue' = Tail(worker_queue)
    /\ polls' = polls - 1
    /\ controls' = "normal"
    /\ run_button' = ButtonFor(times_valid)
    /\ reports' = Append(reports,
                         [worker |-> Head(worker_queue).worker, rc |-> Head(worker_queue).rc,
                          wrote |-> Head(worker_queue).wrote,
                          shown |-> IF Head(worker_queue).success THEN "parsed" ELSE "failed"])
    /\ UNCHANGED <<g_pc, times_valid, out_exists, workers>>
    /\ UNCHANGED <<coreVars, missionVars, posVars, windVars>>

\* The window after start-up; the output path may hold a file of an earlier
\* session
InitGui ==
    /\ ConvIdle /\ MainIdle /\ ParseIdle /\ ReadIdle /\ BinIdle /\ EncIdle /\ PeakIdle
    /\ MissionIdle /\ PosIdle /\ WindIdle
    /\ g_pc = "open"
    /\ times_valid \in BOOLEAN
    /\ run_button = ButtonFor(times_valid)
    /\ controls = "normal"
    /\ out_exists \in {"absent", "stale"}
    /\ workers = <<>>
    /\ worker_queue = <<>>
    /\ polls = 0
    /\ reports = <<>>

NextGui == EditTimes \/ ThemeChange \/ StartConversion \/ WorkerRun \/ PollWorkerQueue
SpecGui == InitGui /\ [][NextGui]_vars
\* Tk runs the scheduled poll and a started thread runs to its end
SpecGuiLive == SpecGui /\ WF_vars(WorkerRun) /\ WF_vars(PollWorkerQueue)

\* ------------------------------------------------ reading a returned text
LineKind(line) ==
    IF line = <<>> THEN "blank"
    ELSE IF Len(line) = 1 THEN line[1].kind
    ELSE "bad"

\* The layout of a text: header, mission, report+, end, then either the end
\* of the text or one blank line and another message.
LayoutStep(q, k) ==
    CASE q = "msg"     /\ k = "header"  -> "mission"
      [] q = "mission" /\ k = "mission" -> "first"
      [] q = "first"   /\ k = "report"  -> "more"
      [] q = "more"    /\ k = "report"  -> "more"
      [] q = "more"    /\ k = "end"     -> "ended"
      [] q = "ended"   /\ k = "blank"   -> "msg"
      [] OTHER -> "reject"

RECURSIVE LayoutRun(_, _)
LayoutRun(lines, q) ==
    IF lines = <<>> THEN q ELSE LayoutRun(Tail(lines), LayoutStep(q, LineKind(Head(lines))))

\* The messages of a text: the runs of non-blank lines
RECURSIVE GroupsOf(_)
GroupsOf(lines) ==
    IF lines = <<>> THEN << <<>> >>
    ELSE LET rest == GroupsOf(Tail(lines))
         IN  IF Head(lines) = <<>> THEN << <<>> >> \o rest
             ELSE << <<Head(lines)[1]>> \o Head(rest) >> \o Tail(rest)

IsNonEmpty(g) == g # <<>>
IsReport(x) == x.kind = "report"
IsHeader(x) == x.kind = "header"
IsMission(x) == x.kind = "mission"
TextMessages == SelectSeq(GroupsOf(SplitNL(text)), IsNonEmpty)
ReportsOf(msg) == SelectSeq(msg, IsReport)
TextReports == SelectSeq(text, IsReport)

RECURSIVE Flatten(_)
Flatten(ss) == IF ss = <<>> THEN <<>> ELSE Head(ss) \o Flatten(Tail(ss))

RECURSIVE DigitsValue(_)
DigitsValue(ds) == IF ds = <<>> THEN 0 ELSE 10 * DigitsValue(SubSeq(ds, 1, Len(ds) - 1)) + ds[Len(ds)]

\* Time of day (hour, minute, second) of a tick count, and the stamp of a tick count
TimeOfDay(t) == LET s == (t \div Res) % 86400 IN << s \div 3600, (s % 3600) \div 60, s % 60 >>
DayStamp(t) == LET s == t \div Res IN << (s \div 86400) + 1, (s % 86400) \div 3600, (s % 3600) \div 60 >>
IT == interval_s * Res
MidOf(b) == b.start + (interval_s \div 2) * Res
MinT(rs) == CHOOSE t \in {rs[k].t : k \in 1..Len(rs)} : \A k \in 1..Len(rs) : t <= rs[k].t
Returned == c_pc = "returned" /\ in_rows # <<>>

\* C1: every bin that produces a line, and every bin the loop is at (first,
\* contiguously advanced or re-anchored), starts at an exact multiple of the
\* interval; the first bin starts at the multiple that contains the earliest
\* sample, floor(t_first / I) * I.
C1_BinStartsAligned ==
    /\ \A b \in 1..Len(bins) : bins[b].start % IT = 0
    /\ c_pc = "loop" => bin_start % IT = 0
    /\ bins # <<>> =>
          /\ bins[1].start <= MinT(in_rows)
          /\ MinT(in_rows) < bins[1].start + IT

C1_Witness ==
    /\ Returned
    /\ Len(bins) >= 3
    /\ bins[1].start # MinT(in_rows)
    /\ \E k \in 1..(Len(bins) - 1) : bins[k + 1].start = bins[k].start + IT
    /\ \E k \in 1..(Len(bins) - 1) : bins[k + 1].start > bins[k].start + IT

\* C2: every consumed sample lies in exactly one bin, the aligned half-open
\* interval containing its timestamp; every line comes from a bin holding at
\* least one sample; and on return the number of report lines in the text is
\* the number of distinct values of floor(t / I) over the input samples.
C2_EachSampleInItsBin ==
    /\ c_pc \in {"loop", "returned"} =>
          /\ \A k \in 1..i :
                /\ Cardinality({b \in 1..Len(bins) : bins[b].lo <= k /\ k <= bins[b].hi}) = 1
                /\ \A b \in 1..Len(bins) : (bins[b].lo <= k /\ k <= bins[b].hi) =>
                      /\ bins[b].start % IT = 0
                      /\ bins[b].start <= rows[k].t
                      /\ rows[k].t < bins[b].start + IT
          /\ \A b \in 1..Len(bins) : bins[b].lo <= bins[b].hi
          /\ Len(out_lines) = Len(bins)
    /\ Returned =>
          /\ i = Len(in_rows)
          /\ Len(TextReports) = Cardinality({in_rows[k].t \div IT : k \in 1..Len(in_rows)})

C2_Witness ==
    /\ Returned
    /\ Len(bins) >= 2
    /\ \E b \in 1..Len(bins) : bins[b].hi > bins[b].lo
    /\ \E k \in 1..(Len(bins) - 1) : bins[k + 1].start > bins[k].start + IT

\* C3: once a bin has been closed at boundary E and samples remain, the
\* following bin starts at the interval boundary of the next sample when that
\* sample lies at or beyond E + I, and exactly at E otherwise; no line is
\* produced for the skipped intervals (line j is the line of the j-th
\* non-empty bin, and every loop iteration produced one).
C3_NextBinAnchoring ==
    (c_pc = "loop" /\ bins # <<>>) =>
        LET E == bins[Len(bins)].start + IT
        IN  /\ Len(out_lines) = iters
            /\ \A j \in 1..Len(out_lines) : out_lines[j].hhmmss = TimeOfDay(MidOf(bins[j]))
            /\ i < Len(rows) =>
                  LET t == rows[i + 1].t
                  IN  IF t >= E + IT
                      THEN /\ bin_start % IT = 0
                           /\ bin_start <= t
                           /\ t < bin_start + IT
                      ELSE bin_start = E

C3_Witness ==
    /\ c_pc = "loop"
    /\ Len(bins) >= 2
    /\ bins[2].start = bins[1].start + IT
    /\ i < Len(rows)
    /\ rows[i + 1].t >= bins[Len(bins)].start + 2 * IT
    /\ bin_start > bins[Len(bins)].start + IT

\* C4: the header of every message carries the day-hour-minute stamp of the
\* bin midpoint of that message's own first report line.
C4_HeaderFromOwnFirstLine ==
    Returned =>
        \A m \in 1..Len(TextMessages) :
            LET hdr == SelectSeq(TextMessages[m], IsHeader)
                first == (m - 1) * lines_per_msg + 1
            IN  /\ Len(hdr) = 1
                /\ first <= Len(bins)
                /\ hdr[1].ddhhmm = DayStamp(MidOf(bins[first]))

\* C5: n report lines and K lines per message give ceil(n / K) messages, each
\* with 1..K report lines and all but the last with exactly K, numbered
\* 01, 02, ... in their mission lines; the report lines of the messages, in
\* message order, are the n lines in the order they were produced.
C5_Chunking ==
    Returned =>
        LET n == Len(out_lines)
            K == lines_per_msg
            M == Len(TextMessages)
        IN  /\ (M - 1) * K < n
            /\ n <= M * K
            /\ \A m \in 1..M :
                  LET reps == ReportsOf(TextMessages[m])
                      mis == SelectSeq(TextMessages[m], IsMission)
                  IN  /\ Len(reps) >= 1
                      /\ Len(reps) <= K
                      /\ m < M => Len(reps) = K
                      /\ Len(mis) = 1
                      /\ Len(mis[1].obnum) = 2
                      /\ DigitsValue(mis[1].obnum) = m
            /\ Flatten([m \in 1..M |-> ReportsOf(TextMessages[m])]) = out_lines

C5_Witness ==
    /\ Returned
    /\ lines_per_msg = 2
    /\ Len(out_lines) = 3
    /\ Len(TextMessages) = 2
    /\ Len(ReportsOf(TextMessages[2])) = 1

\* C6: whatever the order of the input samples, the report lines of the
\* returned text are in strictly increasing order of bin start, within a
\* message and from one message to the next.
C6_LinesChronological ==
    Returned =>
        LET reps == Flatten([m \in 1..Len(TextMessages) |-> ReportsOf(TextMessages[m])])
        IN  /\ Len(reps) = Len(bins)
            /\ \A j \in 1..Len(reps) : reps[j].hhmmss = TimeOfDay(MidOf(bins[j]))
            /\ \A j \in 1..(Len(bins) - 1) : bins[j].start < bins[j + 1].start

C6_Witness ==
    /\ Returned
    /\ \E k \in 1..(Len(in_rows) - 1) : in_rows[k].t > in_rows[k + 1].t
    /\ Len(TextMessages) >= 2
    /\ Len(bins) >= 3

ZeroParsed == m_pc = "done" /\ parsed = <<>>
WindowGiven == start_sec # None \/ end_sec # None
ZeroFiltered ==
    /\ m_pc \in {"call", "converting", "done"}
    /\ parsed # <<>>
    /\ WindowGiven
    /\ m_rows = <<>>
ZeroBins ==
    /\ m_pc = "done"
    /\ c_pc = "returned"
    /\ m_rows # <<>>
    /\ bins = <<>>
HdobPrinted == \E k \in 1..Len(stdout) : stdout[k].kind = "hdob"

\* C8: zero rows parsed, zero rows left by the time window and zero bins
\* produced each end main with a return code of their own (the code of one
\* is never the code of another, nor the success code), and none of them
\* lets an exception escape.
C8_OwnCodePerBatchFailure ==
    /\ ZeroParsed => rc = Some(RcNoRowsParsed)
    /\ ZeroBins => rc = Some(RcNoOutput)
    /\ (ZeroFiltered /\ m_pc = "done") =>
          /\ rc # None
          /\ rc \notin {Some(RcOk), Some(RcNoRowsParsed), Some(RcNoOutput)}
    /\ (parsed # <<>> \/ rc # None) => m_pc # "raised"

NumericAttrs(r) == {r.lat, r.lon, r.ps_hpa, r.ga_m, r.temp_c, r.td_c, r.wspd_ms, r.wdir_deg}

\* C10: whatever token a numeric field holds, each numeric attribute of the
\* row parse_iwg1_row returns is Missing (None) or a finite number, never an
\* infinity or a NaN.
C10_AttributesFiniteOrMissing ==
    (p_pc = "parsed" /\ p_row # None) =>
        \A a \in NumericAttrs(p_row[1]) : a = None \/ a[1].kind = "finite"

\* C11: on every list of samples the parser makes of candidate lines (fields
\* missing, malformed, negative, infinite, NaN), convert_iwg1_to_hdob returns
\* and never raises.
C11_ConvertNeverRaises ==
    /\ b_out # None => ~ b_out[1].raised
    /\ b_out2 # None => ~ b_out2[1].raised


\* C12: read_iwg1 returns exactly the rows of the candidate lines whose
\* timestamp parses, one per such line and in the order of the lines; a line
\* that fails leaves the rows of the lines before and after it as they are.
RECURSIVE C12_RowsOfGoodLines(_)
C12_RowsOfGoodLines(lines) ==
    IF lines = <<>> THEN <<>>
    ELSE LET line == Head(lines)
             good == /\ Len(line) >= 3
                     /\ line[1] = <<"I", "W", "G", "1">>
                     /\ line[2].ok
         IN  (IF good THEN <<ParseIwg1Row(line)[1]>> ELSE <<>>)
                 \o C12_RowsOfGoodLines(Tail(lines))
C12_FailingRowsAreDropped ==
    r_pc = "returned" => r_rows = C12_RowsOfGoodLines(r_text)
\* a text whose second line fails between two lines that parse
C12_Witness ==
    /\ r_pc = "returned"
    /\ Len(r_text) = 3
    /\ IsCandidate(r_text[2]) /\ ~ r_text[2][2].ok
    /\ Len(r_rows) = 2
    /\ r_rows[1] # r_rows[2]

\* C13: whatever the number of workers and the order in which the worker
\* threads take and finish their tasks, each future holds the parse of its own
\* line and read_iwg1 returns the list the serial path returns for the text.
C13_PoolEqualsSerial ==
    /\ \A k \in 1..Len(futures) :
           futures[k] # None => futures[k] = Some(ParseIwg1Row(parts_list[k]))
    /\ r_pc = "returned" =>
           r_rows = DropNones([k \in 1..Len(IterLines(r_text)) |->
                                  ParseIwg1Row(IterLines(r_text)[k])])
\* a pooled run whose tasks finished out of the order of submission
C13_Witness ==
    /\ r_pc = "returned"
    /\ r_workers > 1
    /\ Len(r_rows) >= 2
    /\ r_rows[1] # r_rows[2]
    /\ Len(done_order) >= 2
    /\ done_order[1] > done_order[2]

\* C14: the outcome of convert_iwg1_to_hdob is the same for every order the
\* same samples are passed in.
C14_OrderOfSamplesIrrelevant ==
    b_pc = "done" => b_out = b_out2

\* The sum and the number of the values of field f that are present
RECURSIVE C15_SumCount(_, _)
C15_SumCount(rs, f) ==
    IF rs = <<>> THEN [sum |-> Whole(0), n |-> 0]
    ELSE LET rest == C15_SumCount(SubSeq(rs, 1, Len(rs) - 1), f)
             val == rs[Len(rs)][f]
         IN  IF val = None THEN rest
             ELSE [sum |-> NumAdd(rest.sum, val[1]), n |-> rest.n + 1]
C15_Mean(sc) == NumDivInt(sc.sum, sc.n)
C15_Token(sc, tok, fill, enc) == IF sc.n = 0 THEN tok = fill ELSE tok = enc.value
\* C15: in a rendered line, the token of latitude, longitude, pressure,
\* altitude, temperature and dew point is the fill pattern when no sample has
\* the field and else encodes the mean of the present values; the wind token
\* is the fill pattern exactly when no sample has both direction and speed,
\* the peak-gust token exactly when no sample has a speed.
C15_TokensFollowPresence ==
    (b_out # None /\ ~ b_out[1].raised) =>
        LET line == b_out[1].value
            lat == C15_SumCount(b_rows, "lat")
            lon == C15_SumCount(b_rows, "lon")
            ps == C15_SumCount(b_rows, "ps_hpa")
            ga == C15_SumCount(b_rows, "ga_m")
            t_c == C15_SumCount(b_rows, "temp_c")
            td_c == C15_SumCount(b_rows, "td_c")
        IN  /\ C15_Token(lat, line.lat_str, Fill(5), LatToLLLLH(C15_Mean(lat)))
            /\ C15_Token(lon, line.lon_str, Fill(6), LonToNNNNNH(C15_Mean(lon)))
            /\ C15_Token(ps, line.pppp, Fill(4), EncodePPPP(Some(C15_Mean(ps))))
            /\ C15_Token(ga, line.ggggg, Fill(5), EncodeGGGGG(Some(C15_Mean(ga))))
            /\ C15_Token(t_c, line.sTTT, Fill(3), EncodeSxxx(Some(C15_Mean(t_c))))
            /\ C15_Token(td_c, line.sddd, Fill(3), EncodeSxxx(Some(C15_Mean(td_c))))
            /\ line.wwwSSS = Fill(6) <=>
                   ~ \E k \in 1..Len(b_rows) :
                         b_rows[k].wdir_deg # None /\ b_rows[k].wspd_ms # None
            /\ line.MMM = Fill(3) <=> ~ \E k \in 1..Len(b_rows) : b_rows[k].wspd_ms # None

\* C17: every rendered line has the token widths of the encoding table
\* (latitude 5, longitude 6, pressure 4, altitude 5, composite altimetry 4,
\* temperature 4, dew point 4, wind 6, peak gust 3), whichever fields are
\* missing, and so the same length.
C17_TokenWidthsFixed ==
    (b_out # None /\ ~ b_out[1].raised) =>
        LET line == b_out[1].value
        IN  /\ Len(line.lat_str) = 5
            /\ Len(line.lon_str) = 6
            /\ Len(line.pppp) = 4
            /\ Len(line.ggggg) = 5
            /\ Len(line.xxxx) = 4
            /\ Len(line.sTTT) = 4
            /\ Len(line.sddd) = 4
            /\ Len(line.wwwSSS) = 6
            /\ Len(line.MMM) = 3

\* C16: for every pressure p >= 0 hPa, encode_PPPP(p) is round(p * 10) mod
\* 10000 written with 4 digits, and encode_PPPP(p + 1000) is the same token.
C16_PressureWraps ==
    (e_pc = "encoded" /\ e_args.ps_hpa # None /\ e_args.ps_hpa[1].num >= 0) =>
        LET p == e_args.ps_hpa[1]
            tenths == RoundHalfEven(p.num * 10, p.den)
        IN  /\ e_out.pppp = Some(Ok(FmtD(tenths % 10000, 4)))
            /\ e_out.pppp_up = e_out.pppp

\* C18: encode_XXXX returns "////" when the pressure or the altitude is
\* missing, encode_PPPP of the extrapolated surface pressure when the station
\* pressure is at least 550 hPa, and below it the D-value d as d mod 10000
\* (d >= 0) or (5000 + d) mod 10000 (d < 0); the token has 4 characters.
C18_CompositeToken ==
    (e_pc = "encoded" /\ ~ e_out.xxxx[1].raised) =>
        LET tok == e_out.xxxx[1].value
            ps == e_args.ps_hpa
            z == e_args.z_m
        IN  /\ Len(tok) = 4
            /\ IF ps = None \/ z = None THEN tok = Fill(4)
               ELSE IF ps[1].num >= 550 * ps[1].den
               THEN tok = EncodePPPP(ExtrapolateSurfacePressure(ps, z, e_args.t_c).value).value
               ELSE LET d == DValueM(z, ps).value[1]
                    IN  tok = FmtD((IF d >= 0 THEN d ELSE 5000 + d) % 10000, 4)

\* The sum of the speeds of the samples a..b
RECURSIVE C19_SpeedSum(_, _)
C19_SpeedSum(a, b) ==
    IF a > b THEN Whole(0) ELSE NumAdd(C19_SpeedSum(a, b - 1), k_spds[b][1])
\* C19: for samples one second apart that all have a speed, the value
\* compute_peak10s returns, before the conversion to knots, is at least the
\* mean speed of any 10 consecutive samples (at least 20 m/s for
\* [10,10,10,20,20,20,20,20,20,20,20,20,20]).
C19_PeakCoversTenSamples ==
    (k_pc = "returned" /\ k_spds # <<>> /\ \A k \in 1..Len(k_spds) : k_spds[k] # None) =>
        /\ k_ret = Some(NumMul(best_mean, KTS_PER_MPS))
        /\ \A a \in 1..(Len(k_spds) - 9) :
               NumGe(best_mean, NumDivInt(C19_SpeedSum(a, a + 9), 10))

\* The UTC second of the day of a timestamp in ticks
C20_SecondOfDay(t) == (t \div Res) % 86400
C20_Keeps(sec, s, e) ==
    CASE s # None /\ e # None /\ s[1] <= e[1] -> s[1] <= sec /\ sec <= e[1]
      [] s # None /\ e # None /\ s[1] > e[1]  -> sec >= s[1] \/ sec <= e[1]
      [] s # None /\ e = None                 -> sec >= s[1]
      [] s = None /\ e # None                 -> sec <= e[1]
      [] s = None /\ e = None                 -> TRUE
RECURSIVE C20_Kept(_, _, _)
C20_Kept(rs, s, e) ==
    IF rs = <<>> THEN <<>>
    ELSE (IF C20_Keeps(C20_SecondOfDay(Head(rs).t), s, e) THEN <<Head(rs)>> ELSE <<>>)
             \o C20_Kept(Tail(rs), s, e)
\* C20: the rows main passes on after the time-of-day filter are the parsed
\* rows whose second of the day lies in the window (both bounds, a window
\* that wraps past midnight, one bound, no bound), unchanged and in the
\* order they were parsed in.
C20_WindowKeepsExactly ==
    m_pc = "call" => m_rows = C20_Kept(parsed, start_sec, end_sec)
\* a window that wraps past midnight has kept one row and dropped another
C20_Witness ==
    /\ m_pc = "call"
    /\ start_sec # None /\ end_sec # None
    /\ start_sec[1] > end_sec[1]
    /\ Len(parsed) = 2
    /\ Len(m_rows) = 1

\* The tokens of the last path segment of s, read character by character:
\* "/" starts the segment anew, an underscore or a blank ends a token
RECURSIVE C21_Scan(_, _, _)
C21_Scan(s, toks, cur) ==
    LET done == IF cur = <<>> THEN toks ELSE Append(toks, cur)
    IN  IF s = <<>> THEN done
        ELSE IF Head(s) = "/" THEN C21_Scan(Tail(s), <<>>, <<>>)
        ELSE IF Head(s) \in {"_", " ", "\t"} THEN C21_Scan(Tail(s), done, <<>>)
        ELSE C21_Scan(Tail(s), toks, Append(cur, Head(s)))
C21_Matches(tok) ==
    /\ Len(tok) = 5
    /\ \A k \in 1..4 : tok[k] \in {"0", "1", "2", "3", "4", "5", "6", "7", "8", "9"}
    /\ tok[5] = "A" \/ tok[5] = "B"
\* C21: auto_mission_from_tail returns "AFXXX", the first token that is 4
\* digits and "A" or "B" and has a token after it, and that next token in
\* upper case; without such a token it returns the fallback label.
C21_MissionLabel ==
    a_pc = "returned" =>
        LET toks == C21_Scan(url_or_path, <<>>, <<>>)
            first == IF \E n \in 1..(Len(toks) - 1) : C21_Matches(toks[n])
                     THEN CHOOSE n \in 1..(Len(toks) - 1) :
                              C21_Matches(toks[n]) /\ \A j \in 1..(n - 1) : ~ C21_Matches(toks[j])
                     ELSE 0
        IN  IF first = 0 THEN a_ret = Some(MissionFallback)
            ELSE a_ret = Some(<<"A", "F", "X", "X", "X", " ">> \o toks[first] \o <<" ">>
                              \o Upper(toks[first + 1]))
\* a label is found in the last segment of a path whose first token does not match
C21_Witness ==
    /\ a_pc = "returned"
    /\ a_ret # Some(MissionFallback)
    /\ \E k \in 1..Len(url_or_path) : url_or_path[k] = "/"
    /\ \E k \in 1..Len(url_or_path) : url_or_path[k] = "_"


\* C22: decoding the tokens of lat_to_LLLLH and lon_to_NNNNNH as _tok_to_latlon
\* does gives a position within one minute of arc of the original latitude
\* in [-90, 90] and longitude in [-180, 180], in each coordinate.
C22_Near(x, y) ==
    LET d == NumSub(x, y)
    IN  NumLe(IF d.num < 0 THEN NumNeg(d) ELSE d, Ratio(1, 60))
C22_RoundTripWithinMinute ==
    l_pc = "decoded" =>
        /\ l_decoded # None
        /\ C22_Near(l_decoded[1][1], l_lat)
        /\ C22_Near(l_decoded[1][2], l_lon)
\* a latitude whose minutes round up to 60, with a longitude just below zero
C22_Witness ==
    /\ l_pc = "decoded"
    /\ l_lat = Ratio(25 * 600 + 599, 600)
    /\ l_tokens = Some(<<<<"2", "6", "0", "0", "N">>, <<"0", "0", "0", "0", "0", "W">>>>)
    /\ l_lon = Ratio(-1, 1000)
    /\ l_decoded = Some(<<Whole(26), Whole(0)>>)


\* C23: extrapolate_surface_pressure never raises: it returns Missing when the
\* pressure or the altitude is Missing or the mean-layer temperature is <= 0,
\* a number in every other case, and encode_XXXX is never aborted by it.
C23_ExtrapolationNeverRaises ==
    (e_pc = "encoded" /\ e_out.p0 # None) =>
        LET T_bar == LayerMeanTemp(e_args.ps_hpa[1], e_args.z_m[1], e_args.t_c)
        IN  /\ ~ e_out.p0[1].raised
            /\ e_out.p0[1].value = None <=> NumLe(T_bar, Whole(0))
            /\ ~ e_out.xxxx[1].raised


\* C24: vector_mean_wind of N >= 1 identical (direction, speed) pairs, with
\* the direction in [0, 360) and the speed > 0, returns that direction and
\* that speed, and the returned direction lies in [0, 360).
C24_MeanOfEqualVectors ==
    (w_pc = "returned" /\ wd_deg # <<>>
        /\ (\A k \in 1..Len(wd_deg) : wd_deg[k] = wd_deg[1] /\ ws_ms[k] = ws_ms[1])
        /\ NumGe(wd_deg[1], Whole(0)) /\ NumLt(wd_deg[1], Whole(360))
        /\ NumGt(ws_ms[1], Whole(0))) =>
        /\ ~ w_ret[1].raised
        /\ w_ret[1].value = <<Some(wd_deg[1]), Some(ws_ms[1])>>
        /\ NumGe(w_ret[1].value[1][1], Whole(0))
        /\ NumLt(w_ret[1].value[1][1], Whole(360))
\* three samples from 216.87 degrees at 3.5 m/s
C24_Witness ==
    /\ w_pc = "returned"
    /\ wd_deg = <<OffAxis(2), OffAxis(2), OffAxis(2)>>
    /\ ws_ms = <<Ratio(7, 2), Ratio(7, 2), Ratio(7, 2)>>
    /\ w_ret = Some(Ok(<<Some(OffAxis(2)), Some(Ratio(7, 2))>>))


\* The window after the n-th speed-bearing sample: the samples up to it that
\* are not older than its timestamp minus 10 s
C25_Window(n) ==
    LET samples == PeakSamples(k_times, k_spds)
        InWindow(p) == p[1] >= samples[n][1] - WindowTicks
    IN  SelectSeq(SubSeq(samples, 1, n), InWindow)
C25_Speeds(w) == [k \in 1..Len(w) |-> w[k][2]]
C25_WindowMean(n) == NumDivInt(NumSum(C25_Speeds(C25_Window(n))), Len(C25_Window(n)))
\* C25: in compute_peak10s, after each sample, the window holds exactly the
\* speed-bearing samples seen so far that are not older than the sample's
\* timestamp minus 10 s (the sample itself among them), the running sum is
\* the sum of the speeds in the window, the running count is the number of
\* window entries, and the recorded maximum is the largest window mean so far.
C25_WindowInvariants ==
    (k_pc = "loop" /\ k_idx >= 1) =>
        /\ dq = C25_Window(k_idx)
        /\ dq # <<>>
        /\ dq[Len(dq)] = PeakSamples(k_times, k_spds)[k_idx]
        /\ sum_s = NumSum(C25_Speeds(dq))
        /\ count = Len(dq)
        /\ \E n \in 1..k_idx : best_mean = C25_WindowMean(n)
        /\ \A n \in 1..k_idx : NumGe(best_mean, C25_WindowMean(n))


\* The speeds of the samples that have one, and what "largest" means for them
C26_IsLargest(v, vals) == (\E k \in 1..Len(vals) : vals[k] = v) /\ \A k \in 1..Len(vals) : NumGe(v, vals[k])
C26_Holds(speeds, means) ==
    /\ k_ret = None <=> speeds = <<>>
    /\ (/\ speeds # <<>>
        /\ \A k \in 1..Len(speeds) : speeds[k].kind # "nan"
        /\ \A n \in 1..Len(speeds) : ~ NumGt(means[n], Whole(0)))
           => \E k \in 1..Len(speeds) :
                  /\ C26_IsLargest(speeds[k], speeds)
                  /\ k_ret = Some(NumMul(speeds[k], KTS_PER_MPS))
    /\ (/\ speeds # <<>>
        /\ \A k \in 1..Len(speeds) : NumGe(speeds[k], Whole(0)))
           => \E n \in 1..Len(speeds) :
                  /\ k_ret = Some(NumMul(means[n], KTS_PER_MPS))
                  /\ C26_IsLargest(means[n], means)
                  /\ NumGe(means[n], Whole(0))
                  /\ \E k \in 1..Len(speeds) :
                         /\ C26_IsLargest(speeds[k], speeds)
                         /\ NumLe(means[n], speeds[k])
\* C26: compute_peak10s returns Missing exactly when no sample has a speed;
\* when no window mean exceeds zero it returns the largest instantaneous speed
\* (in knots); when all speeds are non-negative it returns the largest window
\* mean, fallback or not, which lies between 0 and the largest speed.
C26_PeakResult ==
    k_pc = "returned" =>
        LET samples == PeakSamples(k_times, k_spds)
        IN  C26_Holds(C25_Speeds(samples), [n \in 1..Len(samples) |-> C25_WindowMean(n)])
\* a bin whose window means are all negative: the fallback returns -5 m/s in knots
C26_Witness ==
    /\ k_pc = "returned"
    /\ k_spds = <<Some(Whole(-5)), None, Some(Whole(-5))>>
    /\ k_times = <<0, 11 * Res, 22 * Res>>
    /\ IsZero(best_mean)
    /\ k_ret = Some(NumMul(Whole(-5), KTS_PER_MPS))


\* A token: not empty, no whitespace inside
C27_IsToken(g) == g # <<>> /\ \A k \in 1..Len(g) : g[k] \notin WhiteSpace
C27_TwoDigits(n) == <<DigitChar(n \div 10), DigitChar(n % 10)>>
\* The time of day, as six digits, of the middle of the bin of interval I
\* that holds the earliest of the samples rs
C27_MidTime(rs, I) ==
    LET first == CHOOSE t \in {rs[k].t : k \in 1..Len(rs)} : \A k \in 1..Len(rs) : t <= rs[k].t
        width == I * Res
        sec == ((first \div width) * width) \div Res + I \div 2
    IN  C27_TwoDigits((sec \div 3600) % 24) \o C27_TwoDigits((sec \div 60) % 60) \o C27_TwoDigits(sec % 60)
C27_LineOk(out, rs) ==
    (out # None /\ ~ out[1].raised) =>
        LET g == LineGroups(out[1].value)
        IN  /\ Len(g) = 13
            /\ \A k \in 1..Len(g) : C27_IsToken(g[k])
            /\ g[1] = C27_MidTime(rs, BinInterval)
            /\ g[11] = <<"/", "/", "/">>
            /\ g[12] = <<"/", "/", "/">>
\* C27: every report line is one line of exactly 13 whitespace-delimited
\* tokens; the first is the HHMMSS time of day of the bin midpoint (bin start
\* + I/2), and the two placeholder tokens are always "///".
C27_ThirteenTokens == C27_LineOk(b_out, b_rows) /\ C27_LineOk(b_out2, b_perm)
\* two samples at 17 s and 29.5 s, the later one first: the line carries 00:00:15
C27_Witness ==
    /\ b_pc = "done"
    /\ Len(b_rows) = 2
    /\ b_rows[1].t = 59 /\ b_rows[2].t = 34
    /\ ~ b_out[1].raised
    /\ b_out[1].value.hhmmss = <<"0", "0", "0", "0", "1", "5">>
    /\ b_out[1].value.MMM # <<"/", "/", "/">>
    /\ b_out[1].value.KKK = <<"/", "/", "/">>


\* C28: the binning loop of convert_iwg1_to_hdob terminates; every iteration
\* of the outer loop consumes at least one sample and finds its bin non-empty,
\* so there are at most len(rows) iterations.
C28_LoopTerminates ==
    /\ [](iters <= Len(rows) /\ iters = Len(bins))
    /\ [][iters' # iters => (i' > i /\ Len(bins') = Len(bins) + 1)]_vars
    /\ <>(c_pc = "returned")
\* two samples at the same timestamp and one after a gap of many intervals
C28_Witness ==
    /\ c_pc = "returned"
    /\ interval_s = 10
    /\ Len(rows) = 3
    /\ rows[1].t = 34 /\ rows[2].t = 34 /\ rows[3].t = 790
    /\ iters = 2


\* C29: the front end reports a conversion as successful only when the
\* converter run it started returned 0 and wrote the output file during
\* that run.
C29_SuccessMeansWritten ==
    \A k \in 1..Len(reports) :
        reports[k].shown = "parsed" => (reports[k].rc = Some(RcOk) /\ reports[k].wrote)

\* The workers whose result has not been taken from the queue yet
C30_Pending == {w \in 1..Len(workers) : \A k \in 1..Len(reports) : reports[k].worker # w}
\* C30: at most one worker runs at a time; while a started worker's result
\* has not been taken, the run button and the input controls are disabled;
\* each worker puts one result, each result is taken once, and the controls
\* are re-enabled after every run.
C30_OneWorkerAtATime ==
    /\ [](/\ Cardinality({w \in 1..Len(workers) : workers[w] = "running"}) <= 1
          /\ C30_Pending # {} => (run_button = "disabled" /\ controls = "disabled")
          /\ \A w \in 1..Len(workers) :
                 Cardinality({k \in 1..Len(worker_queue) : worker_queue[k].worker = w})
                     + Cardinality({k \in 1..Len(reports) : reports[k].worker = w})
                     = (IF workers[w] = "finished" THEN 1 ELSE 0))
    /\ [](C30_Pending # {} => <>(C30_Pending = {} /\ controls = "normal"))

=============================================================================
